---- MODULE Spec2Model ----
(***************************************************************************)
(* Model of the INA219 driver (scttnlsn/ina219): the configuration codec,  *)
(* the measurement decoders, the calibration and the driver core of        *)
(* src/src/async.rs (from which build.rs derives the blocking driver) and  *)
(* of src/src/lib.rs (the blocking driver kept in the tree).               *)
(***************************************************************************)
EXTENDS Integers, Sequences, FiniteSets, TLC

(***************************************************************************)
(* 16-bit register arithmetic                                              *)
(***************************************************************************)

\* reg >> shift
Shr(reg, shift) == reg \div (2 ^ shift)

\* (reg >> shift) & mask, for a mask of the form 2^k - 1
Field(reg, shift, mask) == Shr(reg, shift) % (mask + 1)

\* reg &= !(mask << shift); reg |= val << shift   (u16 arithmetic)
ApplyField(reg, shift, mask, val) ==
    (reg - Field(reg, shift, mask) * (2 ^ shift) + (val % (mask + 1)) * (2 ^ shift)) % (2 ^ 16)

\* i16::from_ne_bytes(bits.to_ne_bytes())
Signed16(bits) == IF bits >= 2 ^ 15 THEN bits - 2 ^ 16 ELSE bits

\* Rust integer division truncates toward zero
TruncDiv(a, b) == IF a >= 0 THEN a \div b ELSE -((-a) \div b)

(***************************************************************************)
(* Register catalog (register.rs)                                          *)
(***************************************************************************)
RegConfiguration == 0
RegShuntVoltage == 1
RegBusVoltage == 2
RegPower == 3
RegCurrent == 4
RegCalibration == 5

(***************************************************************************)
(* Configuration codec (configuration.rs)                                  *)
(***************************************************************************)
Reset_from_register(reg) ==
    IF Field(reg, 15, 1) = 0 THEN "Run" ELSE "Reset"

Reset_apply_to_reg(self, reg) ==
    ApplyField(reg, 15, 1, IF self = "Run" THEN 0 ELSE 1)

BusVoltageRange_from_register(reg) ==
    IF Field(reg, 13, 1) = 0 THEN "Fsr16v" ELSE "Fsr32v"

BusVoltageRange_apply_to_reg(self, reg) ==
    ApplyField(reg, 13, 1, IF self = "Fsr16v" THEN 0 ELSE 1)

\* upper end of range_v(), in volts
BusVoltageRange_range_v(self) ==
    IF self = "Fsr16v" THEN 16 ELSE 32

ShuntVoltageRange_from_register(reg) ==
    CASE Field(reg, 11, 3) = 0 -> "Fsr40mv"
      [] Field(reg, 11, 3) = 1 -> "Fsr80mv"
      [] Field(reg, 11, 3) = 2 -> "Fsr160mv"
      [] OTHER -> "Fsr320mv"

ShuntVoltageRange_discriminant(self) ==
    CASE self = "Fsr40mv" -> 0
      [] self = "Fsr80mv" -> 1
      [] self = "Fsr160mv" -> 2
      [] OTHER -> 3

ShuntVoltageRange_apply_to_reg(self, reg) ==
    ApplyField(reg, 11, 3, ShuntVoltageRange_discriminant(self))

\* end of range_mv(); the range is symmetric, start = -end
ShuntVoltageRange_range_mv(self) ==
    CASE self = "Fsr40mv" -> 40
      [] self = "Fsr80mv" -> 80
      [] self = "Fsr160mv" -> 160
      [] OTHER -> 320

Resolutions ==
    {"Res9Bit", "Res10Bit", "Res11Bit", "Res12Bit", "Avg2", "Avg4", "Avg8",
     "Avg16", "Avg32", "Avg64", "Avg128"}

\* variant: the pattern 0b1000 read as 9 bit
Resolution_from_register_8_as_9bit(shift, reg) ==
    LET b == Field(reg, shift, 15) IN
    CASE b \in {0, 4, 8} -> "Res9Bit"
      [] b \in {1, 5} -> "Res10Bit"
      [] b \in {2, 6} -> "Res11Bit"
      [] b \in {3, 7} -> "Res12Bit"
      [] b = 9 -> "Avg2"
      [] b = 10 -> "Avg4"
      [] b = 11 -> "Avg8"
      [] b = 12 -> "Avg16"
      [] b = 13 -> "Avg32"
      [] b = 14 -> "Avg64"
      [] OTHER -> "Avg128"

Resolution_from_register(shift, reg) ==
    LET b == Field(reg, shift, 15) IN
    CASE b \in {0, 4} -> "Res9Bit"
      [] b \in {1, 5} -> "Res10Bit"
      [] b \in {2, 6} -> "Res11Bit"
      [] b \in {3, 7, 8} -> "Res12Bit"
      [] b = 9 -> "Avg2"
      [] b = 10 -> "Avg4"
      [] b = 11 -> "Avg8"
      [] b = 12 -> "Avg16"
      [] b = 13 -> "Avg32"
      [] b = 14 -> "Avg64"
      [] OTHER -> "Avg128"

Resolution_discriminant(self) ==
    CASE self = "Res9Bit" -> 0
      [] self = "Res10Bit" -> 1
      [] self = "Res11Bit" -> 2
      [] self = "Res12Bit" -> 3
      [] self = "Avg2" -> 9
      [] self = "Avg4" -> 10
      [] self = "Avg8" -> 11
      [] self = "Avg16" -> 12
      [] self = "Avg32" -> 13
      [] self = "Avg64" -> 14
      [] OTHER -> 15

Resolution_apply_to_reg(self, shift, reg) ==
    ApplyField(reg, shift, 15, Resolution_discriminant(self))

SHIFT_BUS == 7
SHIFT_SHUNT == 3

MeasuredSignals_from_bits_wrapping(bits) ==
    CASE bits % 4 = 1 -> "ShuntVoltage"
      [] bits % 4 = 2 -> "BusVoltage"
      [] bits % 4 = 3 -> "ShutAndBusVoltage"
      [] OTHER -> "panic"

MeasuredSignals_discriminant(self) ==
    CASE self = "ShuntVoltage" -> 1
      [] self = "BusVoltage" -> 2
      [] OTHER -> 3

\* variant: no arm for AdcOff
OperatingMode_from_register_no_adc_off(reg) ==
    LET x == Field(reg, 0, 7) IN
    CASE x = 0 -> <<"PowerDown">>
      [] x \in 1..3 -> <<"Triggered", MeasuredSignals_from_bits_wrapping(x)>>
      [] OTHER -> <<"Continous", MeasuredSignals_from_bits_wrapping(x)>>

\* an operating mode is <<"PowerDown">>, <<"AdcOff">>, <<"Triggered", s>> or <<"Continous", s>>
OperatingMode_from_register(reg) ==
    LET x == Field(reg, 0, 7) IN
    CASE x = 0 -> <<"PowerDown">>
      [] x = 4 -> <<"AdcOff">>
      [] x \in 1..3 -> <<"Triggered", MeasuredSignals_from_bits_wrapping(x)>>
      [] OTHER -> <<"Continous", MeasuredSignals_from_bits_wrapping(x)>>

\* variant: the continuous bit is not set
OperatingMode_as_bits_no_continuous_bit(self) ==
    CASE self[1] = "PowerDown" -> 0
      [] self[1] = "AdcOff" -> 4
      [] OTHER -> MeasuredSignals_discriminant(self[2])

OperatingMode_as_bits(self) ==
    CASE self[1] = "PowerDown" -> 0
      [] self[1] = "AdcOff" -> 4
      [] self[1] = "Triggered" -> MeasuredSignals_discriminant(self[2])
      [] OTHER -> MeasuredSignals_discriminant(self[2]) + 4

OperatingMode_apply_to_reg(self, reg) ==
    ApplyField(reg, 0, 7, OperatingMode_as_bits(self))

Configuration_from_bits(reg) ==
    [reset |-> Reset_from_register(reg),
     bus_voltage_range |-> BusVoltageRange_from_register(reg),
     shunt_voltage_range |-> ShuntVoltageRange_from_register(reg),
     bus_resolution |-> Resolution_from_register(SHIFT_BUS, reg),
     shunt_resolution |-> Resolution_from_register(SHIFT_SHUNT, reg),
     operating_mode |-> OperatingMode_from_register(reg)]

Configuration_as_bits(self) ==
    LET b1 == Reset_apply_to_reg(self.reset, 0)
        b2 == BusVoltageRange_apply_to_reg(self.bus_voltage_range, b1)
        b3 == ShuntVoltageRange_apply_to_reg(self.shunt_voltage_range, b2)
        b4 == Resolution_apply_to_reg(self.bus_resolution, SHIFT_BUS, b3)
        b5 == Resolution_apply_to_reg(self.shunt_resolution, SHIFT_SHUNT, b4)
    IN  OperatingMode_apply_to_reg(self.operating_mode, b5)

\* variant: the 16 V bus range as default
Configuration_default_16v ==
    [reset |-> "Run",
     bus_voltage_range |-> "Fsr16v",
     shunt_voltage_range |-> "Fsr320mv",
     bus_resolution |-> "Res12Bit",
     shunt_resolution |-> "Res12Bit",
     operating_mode |-> <<"Continous", "ShutAndBusVoltage">>]

Configuration_default ==
    [reset |-> "Run",
     bus_voltage_range |-> "Fsr32v",
     shunt_voltage_range |-> "Fsr320mv",
     bus_resolution |-> "Res12Bit",
     shunt_resolution |-> "Res12Bit",
     operating_mode |-> <<"Continous", "ShutAndBusVoltage">>]

(***************************************************************************)
(* Option values: None is <<>>, Some(v) is <<v>>                           *)
(***************************************************************************)
None == <<>>
Some(v) == <<v>>
IsSome(o) == o # <<>>

(***************************************************************************)
(* Measurement decoders (measurements.rs)                                  *)
(***************************************************************************)
\* ShuntVoltage(i16): the signed register pattern, in 10 uV
ShuntVoltage_from_bits_unchecked(reg) == Signed16(reg)

ShuntVoltage_shunt_voltage_10uv(self) == self

ShuntVoltage_shunt_voltage_mv(self) == TruncDiv(self, 100)

ShuntVoltage_from_bits_with_range(reg, range) ==
    LET raw == ShuntVoltage_from_bits_unchecked(reg)
        ten_uv == ShuntVoltage_shunt_voltage_10uv(raw)
        end == ShuntVoltageRange_range_mv(range)
    IN  IF ten_uv >= (-end) * 100 /\ ten_uv <= end * 100 THEN Some(raw) ELSE None

\* ShuntVoltage::raw: u16::from_ne_bytes(self.0.to_ne_bytes())
ShuntVoltage_raw(self) == IF self < 0 THEN self + 2 ^ 16 ELSE self

\* BusVoltage(u16): the register word, flags included
BusVoltage_from_bits_unchecked(reg) == reg

BusVoltage_voltage_4mv(self) == Shr(self, 3)

BusVoltage_voltage_mv(self) == (BusVoltage_voltage_4mv(self) * 4) % (2 ^ 16)

\* variant: tests the math-overflow bit instead of the conversion-ready bit
BusVoltage_is_conversion_ready_overflow_bit(self) == Field(self, 0, 1) # 0

BusVoltage_is_conversion_ready(self) == Field(self, 1, 1) # 0

BusVoltage_has_math_overflowed(self) == Field(self, 0, 1) # 0

BusVoltage_from_bits_with_range(reg, range) ==
    LET new == reg
    IN  IF BusVoltage_voltage_mv(new) <= BusVoltageRange_range_v(range) * 1000
        THEN Some(new) ELSE None

\* (mv / 4) << 3 in u16
BusVoltage_from_mv(mv) == ((mv \div 4) * 8) % (2 ^ 16)

Measurements(bus_voltage, shunt_voltage, current, power) ==
    [bus_voltage |-> bus_voltage, shunt_voltage |-> shunt_voltage,
     current |-> current, power |-> power]

(***************************************************************************)
(* Calibration (calibration.rs)                                            *)
(* A calibration value is a record [kind, current_lsb, r_shunt_uohm]; kind *)
(* tells the implementor of the Calibration trait: UnCalibrated,           *)
(* IntCalibration, or Option<IntCalibration> (OptionNone / OptionSome).    *)
(***************************************************************************)
\* The arithmetic of calibration.rs is 64 bits wide, wider than the integers
\* of the model checker: a u64 (and an i64, in two's complement) is the
\* sequence of its 8 bytes, least significant first.
\* u64::from(n) for 0 <= n < 2^31
U64(n) ==
    [i \in 1..8 |-> IF i <= 3 THEN (n \div (256 ^ (i - 1))) % 256
                    ELSE IF i = 4 THEN n \div (256 ^ 3) ELSE 0]

\* the value of a byte sequence that is below 2^31
as_small(a) == a[1] + 256 * a[2] + 65536 * a[3] + 16777216 * a[4]

\* a * m + carry for a small integer m, in as many bytes as a has
RECURSIVE mul_add(_, _, _)
mul_add(a, m, carry) ==
    IF a = <<>> THEN <<>>
    ELSE LET x == a[1] * m + carry
         IN  <<x % 256>> \o mul_add(Tail(a), m, x \div 256)

\* the number written with the decimal digits, in as many bytes as acc has
RECURSIVE from_decimal(_, _)
from_decimal(digits, acc) ==
    IF digits = <<>> THEN acc
    ELSE from_decimal(Tail(digits), mul_add(acc, 10, Head(digits)))

\* a <= b for byte sequences of the same length
RECURSIVE leq(_, _)
leq(a, b) ==
    IF a = <<>> THEN TRUE
    ELSE LET n == Len(a)
         IN  IF a[n] # b[n] THEN a[n] < b[n]
             ELSE leq(SubSeq(a, 1, n - 1), SubSeq(b, 1, n - 1))

\* a with zero bytes added up to n bytes
widen(a, n) == a \o [i \in 1..(n - Len(a)) |-> 0]

\* a / d for a small integer d > 0, with rem the remainder of the bytes above a
RECURSIVE div_small(_, _, _)
div_small(a, d, rem) ==
    IF a = <<>> THEN <<>>
    ELSE LET n == Len(a)
             x == rem * 256 + a[n]
         IN  div_small(SubSeq(a, 1, n - 1), d, x % d) \o <<x \div d>>

\* the j-th column of the long multiplication of a and b, from row i on
RECURSIVE column_sum(_, _, _, _)
column_sum(a, b, j, i) ==
    IF i > Len(a) THEN 0
    ELSE (IF j - i + 1 \in 1..Len(b) THEN a[i] * b[j - i + 1] ELSE 0)
             + column_sum(a, b, j, i + 1)

RECURSIVE carry_mul(_, _, _, _)
carry_mul(a, b, j, carry) ==
    IF j > Len(a) + Len(b) THEN <<>>
    ELSE LET x == column_sum(a, b, j, 1) + carry
         IN  <<x % 256>> \o carry_mul(a, b, j + 1, x \div 256)

\* the exact product of two u64, 16 bytes
wide_mul(a, b) == carry_mul(a, b, 1, 0)

\* a * b in u64: with overflow checks (debug profile) an overflow panics,
\* without (release profile) it wraps
u64_mul(a, b, overflow_checks) ==
    LET wide == wide_mul(a, b)
        overflow == \E j \in 9..16 : wide[j] # 0
    IN  [panic |-> overflow /\ overflow_checks, val |-> SubSeq(wide, 1, 8)]

\* const SCALING_FACTOR: u64 = 40_960_000_000
SCALING_FACTOR == from_decimal(<<4, 0, 9, 6, 0, 0, 0, 0, 0, 0, 0>>, U64(0))

\* const RANGE = (SCALING_FACTOR / (u16::MAX as u64))..=(SCALING_FACTOR / 2)
RANGE == [start |-> div_small(SCALING_FACTOR, 2 ^ 16 - 1, 0),
          end |-> div_small(SCALING_FACTOR, 2, 0)]

RANGE_contains(product) == leq(RANGE.start, product) /\ leq(product, RANGE.end)

\* SCALING_FACTOR / d for a u64 d > 0, bit by bit from bit `bit` down, q being
\* the bits found so far; a quotient above 2^17 - 1 is reported as 2^17 - 1
RECURSIVE scaling_factor_div(_, _, _)
scaling_factor_div(d, bit, q) ==
    IF bit < 0 THEN q
    ELSE IF leq(mul_add(widen(d, 11), q + 2 ^ bit, 0), widen(SCALING_FACTOR, 11))
         THEN scaling_factor_div(d, bit - 1, q + 2 ^ bit)
         ELSE scaling_factor_div(d, bit - 1, q)

UnCalibrated == [kind |-> "UnCalibrated", current_lsb |-> U64(0), r_shunt_uohm |-> U64(0)]

\* current_lsb: MicroAmpere(i64), r_shunt_uohm: u32, both as 8 bytes
IntCalibration(current_lsb, r_shunt_uohm) ==
    [kind |-> "IntCalibration", current_lsb |-> current_lsb, r_shunt_uohm |-> r_shunt_uohm]

\* #[derive(Default)]: MicroAmpere(0), 0 uOhm
IntCalibration_default == IntCalibration(U64(0), U64(0))

OptionNone == [kind |-> "OptionNone", current_lsb |-> U64(0), r_shunt_uohm |-> U64(0)]

\* the type parameter Calib of a driver: calibrate() takes a value of the same type
CalibType(c) ==
    IF c.kind \in {"OptionNone", "OptionSome"} THEN "Option" ELSE c.kind

\* const READ_CURRENT: true by default, false for UnCalibrated
READ_CURRENT(c) == c.kind # "UnCalibrated"

\* IntCalibration::new: Ok(None), Ok(Some(calibration)), or the panic of the
\* overflowing multiplication
IntCalibration_new(current_lsb, r_shunt_uohm, overflow_checks) ==
    IF current_lsb[8] >= 128 THEN [tag |-> "Ok", kind |-> "-", val |-> <<>>]
    ELSE LET product == u64_mul(current_lsb, r_shunt_uohm, overflow_checks)
         IN  IF product.panic
             THEN [tag |-> "Panic", kind |-> "multiply with overflow", val |-> <<>>]
             ELSE IF RANGE_contains(product.val)
                  THEN [tag |-> "Ok", kind |-> "-",
                        val |-> <<IntCalibration(current_lsb, r_shunt_uohm)>>]
                  ELSE [tag |-> "Ok", kind |-> "-", val |-> <<>>]

\* cur * self.r_shunt_uohm as u64: a calibration whose product overflows is
\* obtainable only where the multiplication wraps
IntCalibration_as_bits_divisor(self) ==
    u64_mul(self.current_lsb, self.r_shunt_uohm, FALSE).val

\* as_bits panics: the unreachable!() arms and the division by zero
IntCalibration_as_bits_panics(self) ==
    \/ self.current_lsb[8] >= 128
    \/ IntCalibration_as_bits_divisor(self) = U64(0)
    \/ scaling_factor_div(IntCalibration_as_bits_divisor(self), 16, 0) < 2
    \/ scaling_factor_div(IntCalibration_as_bits_divisor(self), 16, 0) > 2 ^ 16 - 1

\* variant: bit 0 of the quotient is kept
IntCalibration_as_bits_keeps_bit_0(self) ==
    scaling_factor_div(IntCalibration_as_bits_divisor(self), 16, 0) % (2 ^ 16)

\* (cal as u16) & !1
IntCalibration_as_bits(self) ==
    LET cal == scaling_factor_div(IntCalibration_as_bits_divisor(self), 16, 0)
    IN  (cal % (2 ^ 16)) - (cal % 2)

\* IntCalibration::new(MicroAmpere(100), 1_000_000).unwrap(), as in tests.rs mock_cal
TestCalibration == IntCalibration_new(U64(100), U64(1000000), TRUE).val[1]

Calibrations ==
    {UnCalibrated, OptionNone, TestCalibration, IntCalibration_default}

\* as_bits of the calibrations the drivers are built with, evaluated once
Calibrations_as_bits ==
    [c \in {x \in Calibrations : x.kind = "IntCalibration"} |->
        [panics |-> IntCalibration_as_bits_panics(c), bits |-> IntCalibration_as_bits(c)]]

\* Calibration::register_bits panics where as_bits does
register_bits_panics(c) ==
    /\ c.kind \in {"IntCalibration", "OptionSome"}
    /\ IF c \in DOMAIN Calibrations_as_bits THEN Calibrations_as_bits[c].panics
       ELSE IntCalibration_as_bits_panics(c)

\* Calibration::register_bits: self.as_bits(), 0 for UnCalibrated and None
register_bits(c) ==
    IF c.kind \in {"IntCalibration", "OptionSome"}
    THEN IF c \in DOMAIN Calibrations_as_bits THEN Calibrations_as_bits[c].bits
         ELSE IntCalibration_as_bits(c)
    ELSE 0

\* variant: the register taken as an unsigned number
i64_from_register_unsigned(bits) == bits

\* i64::from(i16::from_ne_bytes(bits.to_ne_bytes()))
i64_from_signed_register(bits) == Signed16(bits)

\* UnCalibrated: (); Option: None / Some(x); IntCalibration: MicroAmpere(x)
current_from_register(c, reg) ==
    CASE c.kind = "UnCalibrated" -> <<"unit">>
      [] c.kind = "OptionNone" -> <<"None">>
      [] OTHER -> <<"MicroAmpere", as_small(c.current_lsb) * i64_from_signed_register(reg)>>

power_from_register(c, reg) ==
    CASE c.kind = "UnCalibrated" -> <<"unit">>
      [] c.kind = "OptionNone" -> <<"None">>
      [] OTHER -> <<"MicroWatt", (20 * as_small(c.current_lsb)) * i64_from_signed_register(reg)>>

\* the two's complement negation of an i64
i64_neg(a) == mul_add([i \in 1..8 |-> 255 - a[i]], 1, 1)

\* i64::from of a value between -2^15 and 2^15
i64_from(n) == IF n >= 0 THEN U64(n) ELSE i64_neg(U64(-n))

\* |a| of an i64, as a u64
i64_unsigned_abs(a) == IF a[8] >= 128 THEN i64_neg(a) ELSE a

\* a * b in i64: with overflow checks an overflow panics, without it wraps
i64_mul(a, b, overflow_checks) ==
    LET wide == wide_mul(i64_unsigned_abs(a), i64_unsigned_abs(b))
        low == SubSeq(wide, 1, 8)
        negative == (a[8] >= 128) # (b[8] >= 128)
        overflow == \/ \E j \in 9..16 : wide[j] # 0
                    \/ /\ low[8] >= 128
                       /\ ~(negative /\ low = <<0, 0, 0, 0, 0, 0, 0, 128>>)
    IN  [panic |-> overflow /\ overflow_checks,
         val |-> IF negative THEN i64_neg(low) ELSE low]

\* IntCalibration::power_lsb: MicroWatt(20 * self.current_lsb.0)
IntCalibration_power_lsb(self, overflow_checks) ==
    i64_mul(U64(20), self.current_lsb, overflow_checks)

\* <IntCalibration as Calibration>::current_from_register on the 64 bits of
\* current_lsb; current_from_register above is its restriction to a
\* current_lsb whose products fit the integers of the model
IntCalibration_current_from_register(self, reg, overflow_checks) ==
    i64_mul(self.current_lsb, i64_from(i64_from_signed_register(reg)), overflow_checks)

\* <IntCalibration as Calibration>::power_from_register
IntCalibration_power_from_register(self, reg, overflow_checks) ==
    LET power_lsb == IntCalibration_power_lsb(self, overflow_checks)
    IN  IF power_lsb.panic THEN power_lsb
        ELSE i64_mul(power_lsb.val, i64_from(i64_from_signed_register(reg)), overflow_checks)

\* a * b in u32, for a and b below 2^31: the low 4 bytes of the product, and
\* the panic of the overflow checks
u32_mul(a, b, overflow_checks) ==
    LET wide == wide_mul(U64(a), U64(b))
    IN  [panic |-> overflow_checks /\ \E j \in 5..16 : wide[j] # 0,
         val |-> SubSeq(wide, 1, 4)]

\* simulate(&calib, bus_voltage, shunt_voltage) for an IntCalibration
simulate(calib, bus_voltage, shunt_voltage, overflow_checks) ==
    LET MAX == 2 ^ 16 - 1
        calib_reg == IntCalibration_as_bits(calib)
        shunt_calib == u32_mul(ShuntVoltage_raw(shunt_voltage), calib_reg, overflow_checks)
        current == as_small(div_small(shunt_calib.val, 4096, 0))
        current_bus == u32_mul(current, BusVoltage_voltage_4mv(bus_voltage), overflow_checks)
        power == as_small(div_small(current_bus.val, 5000, 0))
        current_uA == IntCalibration_current_from_register(calib, current % (2 ^ 16),
                                                           overflow_checks)
        power_uW == IntCalibration_power_from_register(calib, power % (2 ^ 16),
                                                       overflow_checks)
    IN  IF IntCalibration_as_bits_panics(calib) THEN [tag |-> "Panic", kind |-> "as_bits", val |-> <<>>]
        ELSE IF shunt_calib.panic \/ current_bus.panic
             THEN [tag |-> "Panic", kind |-> "multiply with overflow", val |-> <<>>]
        ELSE IF current > MAX \/ power > MAX
             THEN [tag |-> "Err", kind |-> "MathOverflow",
                   val |-> Measurements(bus_voltage, shunt_voltage, <<"unit">>, <<"unit">>)]
        ELSE IF current_uA.panic \/ power_uW.panic
             THEN [tag |-> "Panic", kind |-> "multiply with overflow", val |-> <<>>]
        ELSE [tag |-> "Ok", kind |-> "-",
              val |-> Measurements(bus_voltage, shunt_voltage, current_uA.val, power_uW.val)]

(***************************************************************************)
(* Driver core (async.rs, lib.rs)                                          *)
(***************************************************************************)
VARIABLES
    paranoid,        \* cargo feature "paranoid"
    no_transaction,  \* cargo feature "no_transaction" (async.rs read_many!)
    flavor,          \* "async": the driver of async.rs; "sync": the driver of lib.rs
    env,             \* "mock": the transport answers anything; "device": an INA219 answers
    owner,           \* who holds the transport: "caller", "driver", "error", "dropped"
    config,          \* INA219.config: Option<Configuration> (None without paranoid)
    calib,           \* INA219.calib
    pc,              \* position of the driver inside the running call, "idle" between calls
    op,              \* the public operation running, or the last one that returned
    arg,             \* its argument (a configuration or a calibration), <<>> if none
    attempt,         \* reset(): the local attempt (0 outside the poll loop)
    buf,             \* register words read so far by the running call
    busLog,          \* transport calls issued by the running call, in order
    result,          \* what the last call returned
    config_before,   \* INA219.config when the running call started
    dev,             \* registers and flags of the INA219 behind the transport
    cleared          \* the running call read the power register while conversion-ready was set

vars == <<paranoid, no_transaction, flavor, env, owner, config, calib, pc, op, arg,
          attempt, buf, busLog, result, config_before, dev, cleared>>

MAX_RESET_READ_RETRIES == 10

\* I2C::Error values the transport can return
I2cErrors == {"Nack", "Overrun"}

(***************************************************************************)
(* Inputs: the configurations and calibrations callers pass, and the words *)
(* a transport can answer with                                             *)
(***************************************************************************)
ResetConfiguration == [Configuration_default EXCEPT !.reset = "Reset"]

TriggeredConfiguration ==
    [Configuration_default EXCEPT
        !.bus_voltage_range = "Fsr16v",
        !.shunt_voltage_range = "Fsr40mv",
        !.operating_mode = <<"Triggered", "ShutAndBusVoltage">>]

Configurations == {Configuration_default, ResetConfiguration, TriggeredConfiguration}

\* bus voltage register word for a voltage in mV and the two flag bits
BusWord(mv, flags) == BusVoltage_from_mv(mv) + flags

\* the default word, the default word with the reserved bit 14 set, the
\* reset-bearing default, and the triggered configuration
ConfigurationWords ==
    {Configuration_as_bits(Configuration_default),
     Configuration_as_bits(Configuration_default) + 2 ^ 14,
     Configuration_as_bits(ResetConfiguration),
     Configuration_as_bits(TriggeredConfiguration)}

\* 16 V with each flag pattern, 32.004 V (above every range) with and without
\* conversion-ready, 20 V (inside 32 V, above 16 V), and the all-zero word
BusVoltageWords ==
    {BusWord(16000, f) : f \in 0..3} \cup {BusWord(32004, f) : f \in {0, 2}}
        \cup {BusWord(20000, 3), 0}

\* 0 mV, 80 mV (0x1F40), 320.01 mV, -0.01 mV
ShuntVoltageWords == {0, 8000, 32001, 2 ^ 16 - 1}

PowerWords == {0, 636}

CurrentWords == {0, 796}

CalibrationWords == {0, 408}

Words(reg) ==
    CASE reg = RegConfiguration -> ConfigurationWords
      [] reg = RegShuntVoltage -> ShuntVoltageWords
      [] reg = RegBusVoltage -> BusVoltageWords
      [] reg = RegPower -> PowerWords
      [] reg = RegCurrent -> CurrentWords
      [] OTHER -> CalibrationWords

(***************************************************************************)
(* Results of the public operations                                        *)
(***************************************************************************)
NoResult == [tag |-> "-", kind |-> "-", val |-> <<>>]
Ok(v) == [tag |-> "Ok", kind |-> "-", val |-> v]
Err(kind, v) == [tag |-> "Err", kind |-> kind, val |-> v]
Panicked(what) == [tag |-> "Panic", kind |-> what, val |-> <<>>]

(***************************************************************************)
(* The transport: embedded-hal I2c write, write_read and transaction       *)
(***************************************************************************)
LogEntry(kind, regs, val, out) ==
    [op |-> kind, regs |-> regs, val |-> val, ok |-> out.ok, err |-> out.err]

\* the register addresses the log's reads name, in order
RECURSIVE ReadsOf(_)
ReadsOf(log) ==
    IF log = <<>> THEN <<>>
    ELSE IF log[1].op = "write" THEN ReadsOf(Tail(log))
         ELSE log[1].regs \o ReadsOf(Tail(log))

\* the writes of the log, as <<register, word>>
RECURSIVE WritesOf(_)
WritesOf(log) ==
    IF log = <<>> THEN <<>>
    ELSE IF log[1].op = "write" THEN <<<<log[1].regs[1], log[1].val>>>> \o WritesOf(Tail(log))
         ELSE WritesOf(Tail(log))

\* the INA219 at power-on / after reset (configuration.rs Reset, async.rs init)
DevDefault ==
    [conf |-> Configuration_as_bits(Configuration_default),
     shunt |-> 0, bus |-> 0, power |-> 0, current |-> 0, cal |-> 0,
     resetting |-> FALSE, trig |-> FALSE]

DevReg(d, reg) ==
    CASE reg = RegConfiguration -> d.conf
      [] reg = RegShuntVoltage -> d.shunt
      [] reg = RegBusVoltage -> d.bus
      [] reg = RegPower -> d.power
      [] reg = RegCurrent -> d.current
      [] OTHER -> d.cal

\* what a successful read of reg can return
Responses(reg) == IF env = "mock" THEN Words(reg) ELSE {DevReg(dev, reg)}

\* the conversion-ready flag "is cleared if the power register was read"
DevAfterRead(d, reg) ==
    IF reg = RegPower /\ BusVoltage_is_conversion_ready(d.bus)
    THEN [d EXCEPT !.bus = ApplyField(d.bus, 1, 1, 0)]
    ELSE d

\* a register write arriving at the device: a reset-bearing configuration
\* starts a reset; any other configuration is stored, clears conversion-ready
\* unless the mode is PowerDown or AdcOff, and in triggered mode starts a
\* conversion; a calibration is stored
DevAfterWrite(d, reg, word) ==
    IF reg = RegConfiguration
    THEN IF Reset_from_register(word) = "Reset"
         THEN [d EXCEPT !.conf = word, !.resetting = TRUE, !.trig = FALSE]
         ELSE LET mode == OperatingMode_from_register(word)
              IN  [d EXCEPT !.conf = word,
                            !.bus = IF mode[1] \in {"PowerDown", "AdcOff"}
                                    THEN @ ELSE ApplyField(@, 1, 1, 0),
                            !.trig = (mode[1] = "Triggered")]
    ELSE [d EXCEPT !.cal = word]

ReadOutcomes(reg) ==
    {[ok |-> TRUE, val |-> w, err |-> "-"] : w \in Responses(reg)}
        \cup {[ok |-> FALSE, val |-> 0, err |-> e] : e \in I2cErrors}

\* a failed write may or may not have reached the device
WriteOutcomes ==
    {[ok |-> TRUE, err |-> "-", applied |-> TRUE]}
        \cup {[ok |-> FALSE, err |-> e, applied |-> a] : e \in I2cErrors, a \in BOOLEAN}

DevWritten(reg, word, out) ==
    IF env = "device" /\ out.applied /\ ~dev.resetting
    THEN DevAfterWrite(dev, reg, word) ELSE dev

DevReadBy(reg, out) ==
    IF env = "device" /\ out.ok THEN DevAfterRead(dev, reg) ELSE dev

ClearedBy(reg, out) ==
    cleared \/ (env = "device" /\ out.ok /\ reg = RegPower
                    /\ BusVoltage_is_conversion_ready(dev.bus))

(***************************************************************************)
(* Pure parts of the driver methods                                        *)
(***************************************************************************)
\* shunt_voltage_from_register: the range of the cached configuration, else the widest
\* variant: the widest range whatever the cached configuration says
shunt_voltage_from_register_widest(cfg, value) ==
    LET checked == ShuntVoltage_from_bits_with_range(value, "Fsr320mv")
    IN  IF IsSome(checked) THEN Ok(checked[1])
        ELSE Err("ShuntVoltageOutOfRange",
                 [should |-> "Fsr320mv", is |-> ShuntVoltage_from_bits_unchecked(value)])

shunt_voltage_from_register(cfg, value) ==
    LET shunt_voltage_range ==
            IF paranoid /\ IsSome(cfg) THEN cfg[1].shunt_voltage_range ELSE "Fsr320mv"
        checked == ShuntVoltage_from_bits_with_range(value, shunt_voltage_range)
    IN  IF IsSome(checked) THEN Ok(checked[1])
        ELSE Err("ShuntVoltageOutOfRange",
                 [should |-> shunt_voltage_range,
                  is |-> ShuntVoltage_from_bits_unchecked(value)])

\* bus_voltage_from_register
bus_voltage_from_register(cfg, value) ==
    LET bus_voltage_range ==
            IF paranoid /\ IsSome(cfg) THEN cfg[1].bus_voltage_range ELSE "Fsr32v"
        checked == BusVoltage_from_bits_with_range(value, bus_voltage_range)
    IN  IF IsSome(checked) THEN Ok(checked[1])
        ELSE Err("BusVoltageOutOfRange",
                 [should |-> bus_voltage_range,
                  is |-> BusVoltage_from_bits_unchecked(value)])

\* variant: no range check before the conversion-ready check, and the shunt
\* voltage taken from the second word read, the power register
next_measurement_decode_second_word(cfg, c, words) ==
    LET bus_voltage == BusVoltage_from_bits_unchecked(words[1])
        shunt_voltage == ShuntVoltage_from_bits_unchecked(words[2])
    IN  IF ~BusVoltage_is_conversion_ready(bus_voltage) THEN Ok(None)
        ELSE IF BusVoltage_has_math_overflowed(bus_voltage)
             THEN Err("MathOverflow",
                      Measurements(bus_voltage, shunt_voltage, <<"unit">>, <<"unit">>))
        ELSE Ok(Some(Measurements(bus_voltage, shunt_voltage,
                                  current_from_register(c, IF READ_CURRENT(c) THEN words[4] ELSE 0),
                                  power_from_register(c, words[2]))))

\* next_measurement after the reads: words = <<bus, power, shunt>> or <<bus, power, shunt, current>>
next_measurement_decode(cfg, c, words) ==
    LET current == IF READ_CURRENT(c) THEN words[4] ELSE 0
        bus_voltage == bus_voltage_from_register(cfg, words[1])
        shunt_voltage == shunt_voltage_from_register(cfg, words[3])
    IN  IF bus_voltage.tag = "Err" THEN Err("BusVoltageReadError", bus_voltage.val)
        ELSE IF ~BusVoltage_is_conversion_ready(bus_voltage.val) THEN Ok(None)
        ELSE IF shunt_voltage.tag = "Err" THEN Err("ShuntVoltageReadError", shunt_voltage.val)
        ELSE IF BusVoltage_has_math_overflowed(bus_voltage.val)
             THEN Err("MathOverflow",
                      Measurements(bus_voltage.val, shunt_voltage.val, <<"unit">>, <<"unit">>))
        ELSE Ok(Some(Measurements(bus_voltage.val, shunt_voltage.val,
                                  current_from_register(c, current),
                                  power_from_register(c, words[2]))))

\* variant: the current register read in place of the power register
read_many_order_no_power(c) ==
    IF READ_CURRENT(c)
    THEN <<RegBusVoltage, RegCurrent, RegShuntVoltage, RegCurrent>>
    ELSE <<RegBusVoltage, RegCurrent, RegShuntVoltage>>

\* the order in which next_measurement names the registers (read3 / read4)
\* variant: the shunt voltage read before the power register
read_many_order_shunt_first(c) ==
    IF READ_CURRENT(c)
    THEN <<RegBusVoltage, RegShuntVoltage, RegPower, RegCurrent>>
    ELSE <<RegBusVoltage, RegShuntVoltage, RegPower>>

read_many_order(c) ==
    IF READ_CURRENT(c)
    THEN <<RegBusVoltage, RegPower, RegShuntVoltage, RegCurrent>>
    ELSE <<RegBusVoltage, RegPower, RegShuntVoltage>>

\* variant: a mismatch leaves the cached configuration in place
configuration_check_keeps_saved(cfg, read) ==
    IF ~paranoid THEN <<Ok(read), None>>
    ELSE LET saved == IF IsSome(cfg) THEN cfg[1] ELSE read
         IN  IF read # saved
             THEN <<Err("ConfigurationMismatch", [read |-> read, saved |-> saved]), Some(saved)>>
             ELSE <<Ok(read), Some(saved)>>

\* configuration() after a successful read: <<result, new cache>>
configuration_check(cfg, read) ==
    IF ~paranoid THEN <<Ok(read), None>>
    ELSE LET saved == IF IsSome(cfg) THEN cfg[1] ELSE read
         IN  IF read # saved
             THEN <<Err("ConfigurationMismatch", [read |-> read, saved |-> saved]), Some(read)>>
             ELSE <<Ok(read), Some(saved)>>

\* set_configuration: the cache after the write
\* variant: the cache is set whether or not the write succeeded
set_configuration_cache_always(conf, ok) ==
    IF ~paranoid THEN None ELSE Some(conf)

set_configuration_cache(conf, ok) ==
    IF ~paranoid THEN None
    ELSE IF ok THEN Some(conf) ELSE None

\* reset(): the cache after the reset-bearing write succeeded; cfg is what
\* set_configuration left. async.rs clears it, lib.rs leaves it
reset_cache_after_write(cfg) ==
    IF paranoid /\ flavor = "async" THEN None ELSE cfg

\* reset(): the cache when the poll read the default
reset_cache_after_poll(cfg) ==
    IF paranoid /\ flavor = "async" THEN Some(Configuration_default) ELSE cfg

(***************************************************************************)
(* Initial state: no driver yet, the caller holds the transport            *)
(***************************************************************************)
InitCommon ==
    /\ paranoid \in BOOLEAN
    /\ flavor \in {"async", "sync"}
    /\ no_transaction \in (IF flavor = "async" THEN BOOLEAN ELSE {FALSE})
    /\ owner = "caller"
    /\ config = None
    /\ calib = UnCalibrated
    /\ pc = "idle"
    /\ op = "-"
    /\ arg = <<>>
    /\ attempt = 0
    /\ buf = <<>>
    /\ busLog = <<>>
    /\ result = NoResult
    /\ config_before = None
    /\ dev = DevDefault
    /\ cleared = FALSE

Init == InitCommon /\ env = "mock"

InitDevice == InitCommon /\ env = "device"

Idle == pc = "idle" /\ owner = "driver"

\* the driver returns from the running call
Return(r) == pc' = "idle" /\ result' = r

\* init() failed: new_calibrated wraps the reason and the transport into the error
InitFailed(kind, v) ==
    /\ pc' = "idle"
    /\ result' = Err(kind, v)
    /\ owner' = "error"

(***************************************************************************)
(* Construction: new, new_calibrated, new_unchecked, destroy               *)
(***************************************************************************)
\* new_calibrated: new_unchecked, then init() up to its first bus operation,
\* the reset-bearing write of reset()
new_calibrated(calibration) ==
    /\ pc = "idle" /\ owner = "caller"
    /\ op' = "new_calibrated" /\ arg' = calibration
    /\ calib' = calibration
    /\ config_before' = None
    /\ attempt' = 0 /\ buf' = <<>> /\ cleared' = FALSE
    /\ \E out \in WriteOutcomes :
         LET word == Configuration_as_bits(ResetConfiguration) IN
         /\ busLog' = <<LogEntry("write", <<RegConfiguration>>, word, out)>>
         /\ dev' = DevWritten(RegConfiguration, word, out)
         /\ IF out.ok
            THEN /\ config' = reset_cache_after_write(
                                  set_configuration_cache(ResetConfiguration, TRUE))
                 /\ owner' = "driver"
                 /\ pc' = "reset_poll"
                 /\ result' = NoResult
            ELSE /\ config' = set_configuration_cache(ResetConfiguration, FALSE)
                 /\ InitFailed("I2cError", out.err)
    /\ UNCHANGED <<paranoid, no_transaction, flavor, env>>

\* new: new_calibrated with UnCalibrated
new == new_calibrated(UnCalibrated)

\* new_unchecked: no bus operation
new_unchecked(calibration) ==
    /\ pc = "idle" /\ owner = "caller"
    /\ op' = "new_unchecked" /\ arg' = calibration
    /\ calib' = calibration
    /\ config' = None
    /\ config_before' = None
    /\ owner' = "driver"
    /\ busLog' = <<>> /\ buf' = <<>> /\ cleared' = FALSE
    /\ result' = Ok(<<>>)
    /\ UNCHANGED <<paranoid, no_transaction, flavor, env, pc, attempt, dev>>

\* destroy: the driver gives the transport back
destroy ==
    /\ Idle
    /\ op' = "destroy" /\ arg' = <<>>
    /\ owner' = "caller"
    /\ config_before' = config
    /\ busLog' = <<>> /\ buf' = <<>> /\ cleared' = FALSE
    /\ result' = Ok(<<>>)
    /\ UNCHANGED <<paranoid, no_transaction, flavor, env, config, calib, pc, attempt, dev>>

\* the caller takes the transport out of an InitializationError (its public field device)
take_device ==
    /\ pc = "idle" /\ owner = "error"
    /\ owner' = "caller"
    /\ UNCHANGED <<paranoid, no_transaction, flavor, env, config, calib, pc, op, arg,
                   attempt, buf, busLog, result, config_before, dev, cleared>>

(***************************************************************************)
(* init() and reset(), one bus operation per step                          *)
(***************************************************************************)
\* reset(): one pass of the poll loop
reset_poll ==
    /\ pc = "reset_poll"
    /\ \E out \in ReadOutcomes(RegConfiguration) :
         /\ busLog' = Append(busLog, LogEntry("write_read", <<RegConfiguration>>, 0, out))
         /\ dev' = DevReadBy(RegConfiguration, out)
         /\ IF ~out.ok
            THEN /\ InitFailed("I2cError", out.err)
                 /\ attempt' = 0
                 /\ UNCHANGED <<config, buf>>
            ELSE /\ buf' = <<out.val>>
                 /\ IF Configuration_from_bits(out.val) = Configuration_default
                    THEN /\ config' = reset_cache_after_poll(config)
                         /\ attempt' = 0
                         /\ IF ~paranoid
                            THEN pc' = "init_calibrate" /\ UNCHANGED <<result, owner>>
                            ELSE IF IsSome(config')
                                 THEN pc' = "init_zero" /\ UNCHANGED <<result, owner>>
                                 \* assert!(self.config.is_some())
                                 ELSE /\ Return(Panicked("assert"))
                                      /\ owner' = "dropped"
                    ELSE IF attempt > MAX_RESET_READ_RETRIES
                         THEN /\ InitFailed("ConfigurationNotDefaultAfterReset", <<>>)
                              /\ attempt' = 0
                              /\ UNCHANGED config
                         ELSE /\ attempt' = attempt + 1
                              /\ UNCHANGED <<config, pc, result, owner>>
    /\ UNCHANGED <<paranoid, no_transaction, flavor, env, calib, op, arg, config_before,
                   cleared>>

\* the registers init() expects to read zero after reset, in the order it reads them
\* variant: the current register checked before the calibration register
init_zero_registers_current_first == <<RegCurrent, RegCalibration, RegPower>>

init_zero_registers == <<RegCalibration, RegCurrent, RegPower>>

\* paranoid: "Check that all calculated registers read zero after reset"
init_zero ==
    /\ pc = "init_zero"
    /\ LET reg == init_zero_registers[Len(buf)] IN
       \E out \in ReadOutcomes(reg) :
         /\ busLog' = Append(busLog, LogEntry("write_read", <<reg>>, 0, out))
         /\ dev' = DevReadBy(reg, out)
         /\ cleared' = ClearedBy(reg, out)
         /\ IF ~out.ok
            THEN InitFailed("I2cError", out.err) /\ UNCHANGED buf
            ELSE /\ buf' = Append(buf, out.val)
                 /\ IF out.val # 0
                    THEN InitFailed("RegisterNotZeroAfterReset", reg)
                    ELSE /\ pc' = IF Len(buf) = Len(init_zero_registers)
                                  THEN "init_shunt" ELSE "init_zero"
                         /\ UNCHANGED <<result, owner>>
    /\ UNCHANGED <<paranoid, no_transaction, flavor, env, config, calib, op, arg, attempt,
                   config_before>>

\* paranoid: self.shunt_voltage().await?
init_shunt ==
    /\ pc = "init_shunt"
    /\ \E out \in ReadOutcomes(RegShuntVoltage) :
         /\ busLog' = Append(busLog, LogEntry("write_read", <<RegShuntVoltage>>, 0, out))
         /\ dev' = DevReadBy(RegShuntVoltage, out)
         /\ IF ~out.ok
            THEN InitFailed("I2cError", out.err) /\ UNCHANGED buf
            ELSE /\ buf' = Append(buf, out.val)
                 /\ IF shunt_voltage_from_register(config, out.val).tag = "Err"
                    THEN InitFailed("ShuntVoltageOutOfRange", <<>>)
                    ELSE pc' = "init_bus" /\ UNCHANGED <<result, owner>>
    /\ UNCHANGED <<paranoid, no_transaction, flavor, env, config, calib, op, arg, attempt,
                   config_before, cleared>>

\* paranoid: self.bus_voltage().await?
init_bus ==
    /\ pc = "init_bus"
    /\ \E out \in ReadOutcomes(RegBusVoltage) :
         /\ busLog' = Append(busLog, LogEntry("write_read", <<RegBusVoltage>>, 0, out))
         /\ dev' = DevReadBy(RegBusVoltage, out)
         /\ IF ~out.ok
            THEN InitFailed("I2cError", out.err) /\ UNCHANGED buf
            ELSE /\ buf' = Append(buf, out.val)
                 /\ IF bus_voltage_from_register(config, out.val).tag = "Err"
                    THEN InitFailed("BusVoltageOutOfRange", <<>>)
                    ELSE pc' = "init_calibrate" /\ UNCHANGED <<result, owner>>
    /\ UNCHANGED <<paranoid, no_transaction, flavor, env, config, calib, op, arg, attempt,
                   config_before, cleared>>

\* "Calibrate the device": no write for register bits 0, the reset value
init_calibrate ==
    /\ pc = "init_calibrate"
    /\ IF register_bits_panics(calib)
       THEN /\ Return(Panicked("register_bits"))
            /\ owner' = "dropped"
            /\ UNCHANGED <<busLog, dev>>
       ELSE IF register_bits(calib) = 0
            THEN /\ Return(Ok(<<>>))
                 /\ UNCHANGED <<busLog, dev, owner>>
            ELSE \E out \in WriteOutcomes :
                   /\ busLog' = Append(busLog, LogEntry("write", <<RegCalibration>>,
                                                        register_bits(calib), out))
                   /\ dev' = DevWritten(RegCalibration, register_bits(calib), out)
                   /\ IF out.ok
                      THEN Return(Ok(<<>>)) /\ UNCHANGED owner
                      ELSE InitFailed("I2cError", out.err)
    /\ UNCHANGED <<paranoid, no_transaction, flavor, env, config, calib, op, arg, attempt,
                   buf, config_before, cleared>>

(***************************************************************************)
(* Public operations on a constructed driver                               *)
(***************************************************************************)
\* what every call sets when it starts
Begin(name, a) ==
    /\ op' = name /\ arg' = a
    /\ config_before' = config

\* configuration()
configuration ==
    /\ Idle
    /\ Begin("configuration", <<>>)
    /\ \E out \in ReadOutcomes(RegConfiguration) :
         /\ busLog' = <<LogEntry("write_read", <<RegConfiguration>>, 0, out)>>
         /\ dev' = DevReadBy(RegConfiguration, out)
         /\ IF ~out.ok
            THEN /\ result' = Err("I2cError", out.err)
                 /\ buf' = <<>>
                 /\ UNCHANGED config
            ELSE LET r == configuration_check(config, Configuration_from_bits(out.val)) IN
                 /\ result' = r[1]
                 /\ config' = r[2]
                 /\ buf' = <<out.val>>
    /\ cleared' = FALSE
    /\ UNCHANGED <<paranoid, no_transaction, flavor, env, owner, calib, pc, attempt>>

\* set_configuration(conf)
set_configuration(conf) ==
    /\ Idle
    /\ Begin("set_configuration", conf)
    /\ \E out \in WriteOutcomes :
         /\ busLog' = <<LogEntry("write", <<RegConfiguration>>, Configuration_as_bits(conf),
                                 out)>>
         /\ dev' = DevWritten(RegConfiguration, Configuration_as_bits(conf), out)
         /\ config' = set_configuration_cache(conf, out.ok)
         /\ result' = IF out.ok THEN Ok(<<>>) ELSE Err("I2cError", out.err)
    /\ buf' = <<>> /\ cleared' = FALSE
    /\ UNCHANGED <<paranoid, no_transaction, flavor, env, owner, calib, pc, attempt>>

\* trigger() (async.rs only): with a cached configuration the whole call, else
\* the call up to and including the read made by configuration()
trigger ==
    /\ Idle /\ flavor = "async"
    /\ Begin("trigger", <<>>)
    /\ cleared' = FALSE
    /\ IF paranoid /\ IsSome(config)
       THEN \E out \in WriteOutcomes :
              LET old_config == config[1] IN
              /\ busLog' = <<LogEntry("write", <<RegConfiguration>>,
                                      Configuration_as_bits(old_config), out)>>
              /\ dev' = DevWritten(RegConfiguration, Configuration_as_bits(old_config), out)
              /\ config' = set_configuration_cache(old_config, out.ok)
              /\ result' = IF out.ok THEN Ok(<<>>) ELSE Err("I2cError", out.err)
              /\ buf' = <<>>
              /\ UNCHANGED <<pc, owner>>
       ELSE \E out \in ReadOutcomes(RegConfiguration) :
              /\ busLog' = <<LogEntry("write_read", <<RegConfiguration>>, 0, out)>>
              /\ dev' = DevReadBy(RegConfiguration, out)
              /\ IF ~out.ok
                 THEN /\ result' = Err("I2cError", out.err)
                      /\ buf' = <<>>
                      /\ UNCHANGED <<config, pc, owner>>
                 ELSE LET r == configuration_check(config, Configuration_from_bits(out.val)) IN
                      /\ config' = r[2]
                      /\ buf' = <<out.val>>
                      /\ IF r[1].tag = "Err"
                         THEN \* unreachable!()
                              /\ Return(Panicked("unreachable"))
                              /\ owner' = "dropped"
                         ELSE /\ pc' = "trigger_write"
                              /\ result' = NoResult
                              /\ UNCHANGED owner
    /\ UNCHANGED <<paranoid, no_transaction, flavor, env, calib, attempt>>

\* trigger(): self.set_configuration(old_config) after the read
\* variant: trigger() writes back the word it read, undecoded
trigger_write_raw ==
    /\ pc = "trigger_write"
    /\ \E out \in WriteOutcomes :
         /\ busLog' = Append(busLog, LogEntry("write", <<RegConfiguration>>, buf[1], out))
         /\ dev' = DevWritten(RegConfiguration, buf[1], out)
         /\ config' = set_configuration_cache(Configuration_from_bits(buf[1]), out.ok)
         /\ Return(IF out.ok THEN Ok(<<>>) ELSE Err("I2cError", out.err))
    /\ UNCHANGED <<paranoid, no_transaction, flavor, env, owner, calib, op, arg, attempt,
                   buf, config_before, cleared>>

trigger_write ==
    /\ pc = "trigger_write"
    /\ \E out \in WriteOutcomes :
         LET old_config == Configuration_from_bits(buf[1]) IN
         /\ busLog' = Append(busLog, LogEntry("write", <<RegConfiguration>>,
                                              Configuration_as_bits(old_config), out))
         /\ dev' = DevWritten(RegConfiguration, Configuration_as_bits(old_config), out)
         /\ config' = set_configuration_cache(old_config, out.ok)
         /\ Return(IF out.ok THEN Ok(<<>>) ELSE Err("I2cError", out.err))
    /\ UNCHANGED <<paranoid, no_transaction, flavor, env, owner, calib, op, arg, attempt,
                   buf, config_before, cleared>>

\* calibrate(value): value has the driver's calibration type
calibrate(value) ==
    /\ Idle /\ CalibType(value) = CalibType(calib)
    /\ Begin("calibrate", value)
    /\ calib' = value
    /\ buf' = <<>> /\ cleared' = FALSE
    /\ IF register_bits_panics(value)
       THEN /\ Return(Panicked("register_bits"))
            /\ owner' = "dropped"
            /\ busLog' = <<>>
            /\ UNCHANGED dev
       ELSE \E out \in WriteOutcomes :
              /\ busLog' = <<LogEntry("write", <<RegCalibration>>, register_bits(value),
                                      out)>>
              /\ dev' = DevWritten(RegCalibration, register_bits(value), out)
              /\ result' = IF out.ok THEN Ok(<<>>) ELSE Err("I2cError", out.err)
              /\ UNCHANGED <<pc, owner>>
    /\ UNCHANGED <<paranoid, no_transaction, flavor, env, config, attempt>>

\* variant: a failed read is taken as the word 0 and the next register is read
read_many_step_ignores_errors(i, b, log) ==
    LET order == read_many_order(calib)
        reg == order[i]
    IN  \E out \in ReadOutcomes(reg) :
          /\ busLog' = IF no_transaction
                       THEN Append(log, LogEntry("write_read", <<reg>>, 0, out))
                       ELSE <<LogEntry("transaction", order, 0, out)>>
          /\ dev' = DevReadBy(reg, out)
          /\ buf' = Append(b, IF out.ok THEN out.val ELSE 0)
          /\ IF i = Len(order)
             THEN Return(next_measurement_decode(config, calib, buf'))
             ELSE pc' = "read_many" /\ result' = NoResult

\* one register read of read3 / read4: the i-th register of the order, with b the
\* words read before it and log the calls issued before it
read_many_step(i, b, log) ==
    LET order == read_many_order(calib)
        reg == order[i]
    IN  \E out \in ReadOutcomes(reg) :
          /\ busLog' = IF no_transaction
                       THEN Append(log, LogEntry("write_read", <<reg>>, 0, out))
                       ELSE <<LogEntry("transaction", order, 0, out)>>
          /\ dev' = DevReadBy(reg, out)
          /\ IF ~out.ok
             THEN /\ Return(Err("I2cError", out.err))
                  /\ buf' = b
             ELSE /\ buf' = Append(b, out.val)
                  /\ IF i = Len(order)
                     THEN Return(next_measurement_decode(config, calib, buf'))
                     ELSE pc' = "read_many" /\ result' = NoResult

\* next_measurement(): the call up to and including the first register read
next_measurement ==
    /\ Idle
    /\ Begin("next_measurement", <<>>)
    /\ read_many_step(1, <<>>, <<>>)
    /\ cleared' = FALSE
    /\ UNCHANGED <<paranoid, no_transaction, flavor, env, owner, config, calib, attempt>>

\* next_measurement(): the next register read, and after the last one the decoding
read_many ==
    /\ pc = "read_many"
    /\ read_many_step(Len(buf) + 1, buf, busLog)
    /\ cleared' = (cleared \/ (env = "device" /\ Len(buf') > Len(buf)
                                  /\ read_many_order(calib)[Len(buf) + 1] = RegPower
                                  /\ BusVoltage_is_conversion_ready(dev.bus)))
    /\ UNCHANGED <<paranoid, no_transaction, flavor, env, owner, config, calib, op, arg,
                   attempt, config_before>>

\* shunt_voltage()
shunt_voltage ==
    /\ Idle
    /\ Begin("shunt_voltage", <<>>)
    /\ \E out \in ReadOutcomes(RegShuntVoltage) :
         /\ busLog' = <<LogEntry("write_read", <<RegShuntVoltage>>, 0, out)>>
         /\ dev' = DevReadBy(RegShuntVoltage, out)
         /\ buf' = IF out.ok THEN <<out.val>> ELSE <<>>
         /\ result' = IF out.ok THEN shunt_voltage_from_register(config, out.val)
                      ELSE Err("I2cError", out.err)
    /\ cleared' = FALSE
    /\ UNCHANGED <<paranoid, no_transaction, flavor, env, owner, config, calib, pc, attempt>>

\* bus_voltage()
bus_voltage ==
    /\ Idle
    /\ Begin("bus_voltage", <<>>)
    /\ \E out \in ReadOutcomes(RegBusVoltage) :
         /\ busLog' = <<LogEntry("write_read", <<RegBusVoltage>>, 0, out)>>
         /\ dev' = DevReadBy(RegBusVoltage, out)
         /\ buf' = IF out.ok THEN <<out.val>> ELSE <<>>
         /\ result' = IF out.ok THEN bus_voltage_from_register(config, out.val)
                      ELSE Err("I2cError", out.err)
    /\ cleared' = FALSE
    /\ UNCHANGED <<paranoid, no_transaction, flavor, env, owner, config, calib, pc, attempt>>

\* variant: a failed read of the power register empties the cached configuration
power_raw_forgets_configuration ==
    /\ Idle
    /\ Begin("power_raw", <<>>)
    /\ \E out \in ReadOutcomes(RegPower) :
         /\ busLog' = <<LogEntry("write_read", <<RegPower>>, 0, out)>>
         /\ dev' = DevReadBy(RegPower, out)
         /\ cleared' = (env = "device" /\ out.ok /\ BusVoltage_is_conversion_ready(dev.bus))
         /\ buf' = IF out.ok THEN <<out.val>> ELSE <<>>
         /\ result' = IF out.ok THEN Ok(out.val) ELSE Err("I2cError", out.err)
         /\ config' = IF out.ok THEN config ELSE None
    /\ UNCHANGED <<paranoid, no_transaction, flavor, env, owner, calib, pc, attempt>>

\* power_raw()
power_raw ==
    /\ Idle
    /\ Begin("power_raw", <<>>)
    /\ \E out \in ReadOutcomes(RegPower) :
         /\ busLog' = <<LogEntry("write_read", <<RegPower>>, 0, out)>>
         /\ dev' = DevReadBy(RegPower, out)
         /\ cleared' = (env = "device" /\ out.ok /\ BusVoltage_is_conversion_ready(dev.bus))
         /\ buf' = IF out.ok THEN <<out.val>> ELSE <<>>
         /\ result' = IF out.ok THEN Ok(out.val) ELSE Err("I2cError", out.err)
    /\ UNCHANGED <<paranoid, no_transaction, flavor, env, owner, config, calib, pc, attempt>>

\* current_raw()
current_raw ==
    /\ Idle
    /\ Begin("current_raw", <<>>)
    /\ \E out \in ReadOutcomes(RegCurrent) :
         /\ busLog' = <<LogEntry("write_read", <<RegCurrent>>, 0, out)>>
         /\ dev' = DevReadBy(RegCurrent, out)
         /\ buf' = IF out.ok THEN <<out.val>> ELSE <<>>
         /\ result' = IF out.ok THEN Ok(out.val) ELSE Err("I2cError", out.err)
    /\ cleared' = FALSE
    /\ UNCHANGED <<paranoid, no_transaction, flavor, env, owner, config, calib, pc, attempt>>

(***************************************************************************)
(* The INA219 behind the transport (env = "device")                        *)
(***************************************************************************)
\* what a conversion can leave in the registers
DevSamples ==
    {[mv |-> 16000, shunt |-> 8000, power |-> 636, current |-> 796, ovf |-> 0],
     [mv |-> 16000, shunt |-> 8000, power |-> 0, current |-> 0, ovf |-> 1]}

\* a conversion finishes: "The flag is set when a conversion finished"
dev_conversion ==
    /\ env = "device" /\ ~dev.resetting
    /\ LET mode == OperatingMode_from_register(dev.conf) IN
       /\ mode[1] = "Continous" \/ (mode[1] = "Triggered" /\ dev.trig)
       /\ \E m \in DevSamples :
            dev' = [dev EXCEPT !.bus = BusWord(m.mv, 2 + m.ovf),
                               !.shunt = m.shunt,
                               !.power = m.power,
                               !.current = m.current,
                               !.trig = FALSE]
    /\ UNCHANGED <<paranoid, no_transaction, flavor, env, owner, config, calib, pc, op, arg,
                   attempt, buf, busLog, result, config_before, cleared>>

\* the reset finishes: "all registers are set to their defaults. The flag is
\* cleared after the reset was performed"
dev_reset_done ==
    /\ env = "device" /\ dev.resetting
    /\ dev' = DevDefault
    /\ UNCHANGED <<paranoid, no_transaction, flavor, env, owner, config, calib, pc, op, arg,
                   attempt, buf, busLog, result, config_before, cleared>>

(***************************************************************************)
(* Specifications                                                          *)
(***************************************************************************)
Next ==
    \/ new
    \/ \E c \in Calibrations : new_calibrated(c)
    \/ \E c \in Calibrations : new_unchecked(c)
    \/ destroy
    \/ take_device
    \/ reset_poll
    \/ init_zero
    \/ init_shunt
    \/ init_bus
    \/ init_calibrate
    \/ configuration
    \/ \E conf \in Configurations : set_configuration(conf)
    \/ trigger
    \/ trigger_write
    \/ \E c \in Calibrations : calibrate(c)
    \/ next_measurement
    \/ read_many
    \/ shunt_voltage
    \/ bus_voltage
    \/ power_raw
    \/ current_raw

NextDevice == Next \/ dev_conversion \/ dev_reset_done

(***************************************************************************)
(* The configuration codec on its own: every word and every value          *)
(***************************************************************************)
OperatingModes ==
    {<<"PowerDown">>, <<"AdcOff">>}
        \cup {<<"Triggered", m>> : m \in {"ShuntVoltage", "BusVoltage", "ShutAndBusVoltage"}}
        \cup {<<"Continous", m>> : m \in {"ShuntVoltage", "BusVoltage", "ShutAndBusVoltage"}}

\* every value of struct Configuration
AllConfigurations ==
    [reset : {"Run", "Reset"},
     bus_voltage_range : {"Fsr16v", "Fsr32v"},
     shunt_voltage_range : {"Fsr40mv", "Fsr80mv", "Fsr160mv", "Fsr320mv"},
     bus_resolution : Resolutions,
     shunt_resolution : Resolutions,
     operating_mode : OperatingModes]

\* the input is a u16 word or a Configuration value; buf holds the results of
\* the calls applied so far, each applied to the result before it
InitCodec ==
    /\ paranoid = FALSE /\ no_transaction = FALSE /\ flavor = "async" /\ env = "mock"
    /\ owner = "caller" /\ config = None /\ calib = UnCalibrated
    /\ pc = "codec" /\ op = "-"
    /\ \/ arg \in {[kind |-> "word", v |-> w] : w \in 0..(2 ^ 16 - 1)}
       \/ arg \in {[kind |-> "value", v |-> x] : x \in AllConfigurations}
    /\ attempt = 0 /\ buf = <<>> /\ busLog = <<>> /\ result = NoResult
    /\ config_before = None /\ dev = DevDefault /\ cleared = FALSE

CodecCurrent == IF buf = <<>> THEN arg.v ELSE buf[Len(buf)]

CodecIsWord == (arg.kind = "word") <=> (Len(buf) % 2 = 0)

\* Configuration::from_bits applied to the current word: of the input word,
\* and of the cleaned bits as in tests::is_inverse
Configuration_from_bits_call ==
    /\ pc = "codec" /\ CodecIsWord /\ Len(buf) <= 2
    /\ op' = "from_bits"
    /\ buf' = Append(buf, Configuration_from_bits(CodecCurrent))
    /\ result' = Ok(Configuration_from_bits(CodecCurrent))
    /\ UNCHANGED <<paranoid, no_transaction, flavor, env, owner, config, calib, pc, arg,
                   attempt, busLog, config_before, dev, cleared>>

\* Configuration::as_bits applied to the current value
Configuration_as_bits_call ==
    /\ pc = "codec" /\ ~CodecIsWord /\ Len(buf) <= 1
    /\ op' = "as_bits"
    /\ buf' = Append(buf, Configuration_as_bits(CodecCurrent))
    /\ result' = Ok(Configuration_as_bits(CodecCurrent))
    /\ UNCHANGED <<paranoid, no_transaction, flavor, env, owner, config, calib, pc, arg,
                   attempt, busLog, config_before, dev, cleared>>

\* BusVoltage::from_mv(mv).voltage_mv() for the input word taken as mv
BusVoltage_from_mv_call ==
    /\ pc = "codec" /\ arg.kind = "word" /\ op = "-"
    /\ op' = "from_mv" /\ pc' = "from_mv"
    /\ result' = Ok([bus_voltage |-> BusVoltage_from_mv(arg.v),
                     voltage_mv |-> BusVoltage_voltage_mv(BusVoltage_from_mv(arg.v))])
    /\ UNCHANGED <<paranoid, no_transaction, flavor, env, owner, config, calib, arg,
                   attempt, buf, busLog, config_before, dev, cleared>>

NextCodec ==
    \/ Configuration_from_bits_call
    \/ Configuration_as_bits_call
    \/ BusVoltage_from_mv_call

SpecCodec == InitCodec /\ [][NextCodec]_vars

\* IntCalibration::new and as_bits on their own: current_lsb is an i64 and
\* r_shunt_uohm a u32, both as 8 bytes, around the bounds of RANGE, of the
\* sign and of the 64 bits of the product
CurrentLsbs ==
    {U64(0), U64(1), U64(2), U64(100), U64(625008), U64(625009), U64(625010),
     from_decimal(<<2, 0, 4, 8, 0, 0, 0, 0, 0, 0, 0>>, U64(0)),
     from_decimal(<<2, 0, 4, 8, 0, 0, 0, 0, 0, 0, 1>>, U64(0)),
     <<0, 0, 0, 0, 2, 0, 0, 0>>,
     <<255, 255, 255, 255, 255, 255, 255, 127>>,
     <<255, 255, 255, 255, 255, 255, 255, 255>>,
     <<0, 0, 0, 0, 0, 0, 0, 128>>}

RShunts ==
    {U64(0), U64(1), U64(2), U64(3), U64(1000), U64(6250), U64(625009), U64(1000000),
     U64(204800000), <<1, 0, 0, 128, 0, 0, 0, 0>>, <<255, 255, 255, 255, 0, 0, 0, 0>>}

InitCalibration ==
    /\ paranoid = FALSE /\ no_transaction = FALSE /\ flavor = "async" /\ env = "mock"
    /\ owner = "caller" /\ config = None /\ calib = UnCalibrated
    /\ pc = "calibration" /\ op = "-"
    /\ arg \in [current_lsb : CurrentLsbs, r_shunt_uohm : RShunts]
    /\ attempt = 0 /\ buf = <<>> /\ busLog = <<>> /\ result = NoResult
    /\ config_before = None /\ dev = DevDefault /\ cleared = FALSE

\* IntCalibration::new(MicroAmpere(current_lsb), r_shunt_uohm), built with or
\* without overflow checks
IntCalibration_new_call ==
    /\ pc = "calibration" /\ op = "-"
    /\ op' = "new"
    /\ \E overflow_checks \in BOOLEAN :
           result' = IntCalibration_new(arg.current_lsb, arg.r_shunt_uohm, overflow_checks)
    /\ UNCHANGED <<paranoid, no_transaction, flavor, env, owner, config, calib, pc, arg,
                   attempt, buf, busLog, config_before, dev, cleared>>

\* IntCalibration::default(), the derived Default: both fields zero
IntCalibration_default_call ==
    /\ pc = "calibration" /\ op = "-"
    /\ op' = "default"
    /\ arg' = [current_lsb |-> IntCalibration_default.current_lsb,
               r_shunt_uohm |-> IntCalibration_default.r_shunt_uohm]
    /\ result' = Ok(Some(IntCalibration_default))
    /\ UNCHANGED <<paranoid, no_transaction, flavor, env, owner, config, calib, pc,
                   attempt, buf, busLog, config_before, dev, cleared>>

\* as_bits of the calibration that new or default returned
IntCalibration_as_bits_call ==
    /\ pc = "calibration" /\ op \in {"new", "default"}
    /\ result.tag = "Ok" /\ IsSome(result.val)
    /\ op' = "as_bits"
    /\ calib' = result.val[1]
    /\ result' = IF IntCalibration_as_bits_panics(result.val[1])
                 THEN Panicked("as_bits")
                 ELSE Ok(IntCalibration_as_bits(result.val[1]))
    /\ UNCHANGED <<paranoid, no_transaction, flavor, env, owner, config, pc, arg,
                   attempt, buf, busLog, config_before, dev, cleared>>

\* the register words current_from_register and power_from_register are given
RegisterWords == {0, 1, 636, 796, 2 ^ 15 - 1, 2 ^ 15, 2 ^ 16 - 1}

\* what a multiplication returned, as a result
Multiplied(r) == IF r.panic THEN Panicked("multiply with overflow") ELSE Ok(r.val)

\* current_from_register(CurrentRegister(reg)) of the calibration that new returned
current_from_register_call ==
    /\ pc = "calibration" /\ op = "new"
    /\ result.tag = "Ok" /\ IsSome(result.val)
    /\ op' = "current_from_register"
    /\ calib' = result.val[1]
    /\ \E reg \in RegisterWords, overflow_checks \in BOOLEAN :
         /\ buf' = <<reg>>
         /\ result' = Multiplied(IntCalibration_current_from_register(
                                     result.val[1], reg, overflow_checks))
    /\ UNCHANGED <<paranoid, no_transaction, flavor, env, owner, config, pc, arg,
                   attempt, busLog, config_before, dev, cleared>>

\* power_from_register(PowerRegister(reg)) of the calibration that new returned
power_from_register_call ==
    /\ pc = "calibration" /\ op = "new"
    /\ result.tag = "Ok" /\ IsSome(result.val)
    /\ op' = "power_from_register"
    /\ calib' = result.val[1]
    /\ \E reg \in RegisterWords, overflow_checks \in BOOLEAN :
         /\ buf' = <<reg>>
         /\ result' = Multiplied(IntCalibration_power_from_register(
                                     result.val[1], reg, overflow_checks))
    /\ UNCHANGED <<paranoid, no_transaction, flavor, env, owner, config, pc, arg,
                   attempt, busLog, config_before, dev, cleared>>

\* the bus voltages given to simulate: 0 V, from_mv(20_000), from_mv(32_000),
\* and the all-ones register word
SimulateBusVoltages == {0, BusVoltage_from_mv(20000), BusVoltage_from_mv(32000), 2 ^ 16 - 1}

\* the shunt voltages given to simulate, in 10 uV as from_10uv takes them
SimulateShuntVoltages == {0, 1, 4000, 32000, -1, -(2 ^ 15)}

\* simulate with the calibration that new returned
simulate_call ==
    /\ pc = "calibration" /\ op = "new"
    /\ result.tag = "Ok" /\ IsSome(result.val)
    /\ op' = "simulate"
    /\ calib' = result.val[1]
    /\ \E bus \in SimulateBusVoltages, shunt \in SimulateShuntVoltages,
          overflow_checks \in BOOLEAN :
         /\ buf' = <<bus, shunt>>
         /\ result' = simulate(result.val[1], bus, shunt, overflow_checks)
    /\ UNCHANGED <<paranoid, no_transaction, flavor, env, owner, config, pc, arg,
                   attempt, busLog, config_before, dev, cleared>>

NextCalibration ==
    \/ IntCalibration_new_call
    \/ IntCalibration_default_call
    \/ simulate_call
    \/ IntCalibration_as_bits_call
    \/ current_from_register_call
    \/ power_from_register_call

SpecCalibration == InitCalibration /\ [][NextCalibration]_vars

(***************************************************************************)
(* The bus address (address.rs): every byte and every pair of pins         *)
(***************************************************************************)
\* Pin::as_byte: self as u8, Gnd = 0, Vcc = 1, Sda = 2, Scl = 3
Pin_as_byte(self) ==
    CASE self = "Gnd" -> 0
      [] self = "Vcc" -> 1
      [] self = "Sda" -> 2
      [] self = "Scl" -> 3

\* Pin::from_lowest_bits: match byte & 0b11
Pin_from_lowest_bits(byte) ==
    CASE Field(byte, 0, 3) = 0 -> "Gnd"
      [] Field(byte, 0, 3) = 1 -> "Vcc"
      [] Field(byte, 0, 3) = 2 -> "Sda"
      [] Field(byte, 0, 3) = 3 -> "Scl"

\* variant: the pins in the other order
Address_from_pins_swapped(a0, a1) ==
    [byte |-> ApplyField(ApplyField(64, 0, 3, Pin_as_byte(a1)), 2, 3, Pin_as_byte(a0)) % 256]

\* Address::from_pins: byte = 0b100_0000; byte |= a0; byte |= a1 << 2 (u8)
Address_from_pins(a0, a1) ==
    [byte |-> ApplyField(ApplyField(64, 0, 3, Pin_as_byte(a0)), 2, 3, Pin_as_byte(a1)) % 256]

\* Address::from_byte: Ok inside MIN_ADDRESS..=MAX_ADDRESS, else Err(OutOfRange { which })
Address_from_byte(byte) ==
    IF byte \in 64..79 THEN Ok([byte |-> byte]) ELSE Err("OutOfRange", byte)

Address_as_byte(self) == self.byte

\* Address::as_pins
Address_as_pins(self) ==
    <<Pin_from_lowest_bits(self.byte), Pin_from_lowest_bits(Shr(self.byte, 2))>>

InitAddress ==
    /\ paranoid = FALSE /\ no_transaction = FALSE /\ flavor = "async" /\ env = "mock"
    /\ owner = "caller" /\ config = None /\ calib = UnCalibrated
    /\ pc = "address" /\ op = "-"
    /\ \/ arg \in {[kind |-> "byte", v |-> b] : b \in 0..(2 ^ 8 - 1)}
       \/ arg \in {[kind |-> "pins", v |-> <<a0, a1>>] :
                      a0 \in {"Gnd", "Vcc", "Sda", "Scl"}, a1 \in {"Gnd", "Vcc", "Sda", "Scl"}}
    /\ attempt = 0 /\ buf = <<>> /\ busLog = <<>> /\ result = NoResult
    /\ config_before = None /\ dev = DevDefault /\ cleared = FALSE

\* Address::from_byte(byte), and as_byte and as_pins of the address it returns
Address_from_byte_call ==
    /\ pc = "address" /\ op = "-" /\ arg.kind = "byte"
    /\ op' = "from_byte"
    /\ result' = Address_from_byte(arg.v)
    /\ buf' = IF result'.tag = "Ok"
              THEN <<Address_as_byte(result'.val), Address_as_pins(result'.val)>>
              ELSE <<>>
    /\ UNCHANGED <<paranoid, no_transaction, flavor, env, owner, config, calib, pc, arg,
                   attempt, busLog, config_before, dev, cleared>>

\* Address::from_pins(a0, a1), and as_byte and as_pins of the address it returns
Address_from_pins_call ==
    /\ pc = "address" /\ op = "-" /\ arg.kind = "pins"
    /\ op' = "from_pins"
    /\ result' = Ok(Address_from_pins(arg.v[1], arg.v[2]))
    /\ buf' = <<Address_as_byte(result'.val), Address_as_pins(result'.val)>>
    /\ UNCHANGED <<paranoid, no_transaction, flavor, env, owner, config, calib, pc, arg,
                   attempt, busLog, config_before, dev, cleared>>

NextAddress == Address_from_byte_call \/ Address_from_pins_call

SpecAddress == InitAddress /\ [][NextAddress]_vars

\* the driver against a transport that may answer anything
Spec == Init /\ [][Next]_vars

\* the driver against an INA219
SpecDevice == InitDevice /\ [][NextDevice]_vars

(***************************************************************************)
(* Properties                                                              *)
(***************************************************************************)
\* the call name has returned and its result is the last result
Returned(name) == pc = "idle" /\ op = name

\* next_measurement has returned and none of its register reads failed
MeasurementRead ==
    /\ Returned("next_measurement")
    /\ Len(buf) = (IF calib.kind = "UnCalibrated" THEN 3 ELSE 4)

IsNoNewData(r) == r.tag = "Ok" /\ r.val = <<>>

\* the ranges the driver validates against: those of the cached configuration
\* in paranoid mode when one is cached, else 32 V and +-320 mV
ActiveBusRangeMv ==
    IF paranoid /\ config # <<>> /\ config[1].bus_voltage_range = "Fsr16v"
    THEN 16000 ELSE 32000

ActiveShuntRange10uv ==
    IF paranoid /\ config # <<>>
    THEN (CASE config[1].shunt_voltage_range = "Fsr40mv" -> 4000
            [] config[1].shunt_voltage_range = "Fsr80mv" -> 8000
            [] config[1].shunt_voltage_range = "Fsr160mv" -> 16000
            [] OTHER -> 32000)
    ELSE 32000

BusInRange(w) == (w \div 8) * 4 <= ActiveBusRangeMv

ShuntInRange(w) ==
    /\ Signed16(w) >= -ActiveShuntRange10uv
    /\ Signed16(w) <= ActiveShuntRange10uv

\* C1 as stated: next_measurement returns Ok(None) if and only if bit 1
\* (conversion ready) of the bus voltage word it read is not set.
C1_NoNewDataIffNotReady ==
    MeasurementRead => (IsNoNewData(result) <=> (buf[1] \div 2) % 2 = 0)

\* C1 as amended: for a bus voltage word whose voltage field lies within the
\* active bus range, next_measurement returns Ok(None) if and only if bit 1 of
\* the word is not set; for a word above the active range it returns the bus
\* out-of-range error, whatever the flag says.
C1_NoNewDataIffNotReadyInRange ==
    MeasurementRead =>
        /\ BusInRange(buf[1]) => (IsNoNewData(result) <=> (buf[1] \div 2) % 2 = 0)
        /\ ~BusInRange(buf[1]) =>
              /\ result.tag = "Err"
              /\ result.kind = "BusVoltageReadError"
              /\ result.val.is = buf[1]

\* C1 witness: a call that read a bus voltage word without the flag and returned Ok(None)
C1_Witness ==
    /\ MeasurementRead
    /\ IsNoNewData(result)
    /\ (buf[1] \div 2) % 2 = 0
    /\ buf[1] # 0

\* C2 as stated: whenever bit 0 (math overflow) of the bus voltage word is set,
\* next_measurement fails with MathOverflow carrying the bus and shunt voltage
\* decoded from the words of that call, current and power omitted.
C2_OverflowAlwaysReported ==
    (MeasurementRead /\ buf[1] % 2 = 1) =>
        /\ result.tag = "Err"
        /\ result.kind = "MathOverflow"
        /\ result.val.bus_voltage = buf[1]
        /\ result.val.shunt_voltage = Signed16(buf[3])
        /\ result.val.current = <<"unit">>
        /\ result.val.power = <<"unit">>

\* C2 as amended: whenever the bus voltage word has the math-overflow flag and
\* the conversion-ready flag set and the bus and shunt words lie within the
\* active ranges, next_measurement fails with MathOverflow carrying the bus and
\* shunt voltage decoded from the words of that call, current and power omitted.
C2_OverflowReportedWhenReady ==
    (MeasurementRead /\ buf[1] % 2 = 1 /\ (buf[1] \div 2) % 2 = 1
        /\ BusInRange(buf[1]) /\ ShuntInRange(buf[3])) =>
        /\ result.tag = "Err"
        /\ result.kind = "MathOverflow"
        /\ result.val.bus_voltage = buf[1]
        /\ result.val.shunt_voltage = Signed16(buf[3])
        /\ result.val.current = <<"unit">>
        /\ result.val.power = <<"unit">>

\* C2 witness: the math_overflow test of tests.rs, 16 V and 80 mV with both flags
C2_Witness ==
    /\ MeasurementRead
    /\ buf[1] = 32003 /\ buf[3] = 8000
    /\ calib.kind = "IntCalibration"
    /\ result.kind = "MathOverflow"

IsPrefix(s, t) == Len(s) <= Len(t) /\ \A i \in 1..Len(s) : s[i] = t[i]

\* Bus, Power, Shunt, then Current unless the calibration is UnCalibrated
ExpectedMeasurementReads ==
    IF calib.kind = "UnCalibrated" THEN <<2, 3, 1>> ELSE <<2, 3, 1, 4>>

C4_NoneNeverClearsReady ==
    (Returned("next_measurement") /\ IsNoNewData(result)) => ~cleared

ConfigurationReads(log) ==
    Cardinality({i \in DOMAIN log :
                    log[i].op = "write_read" /\ log[i].regs = <<RegConfiguration>>})

\* C5 as stated: reset() writes the reset-bearing configuration once, then
\* reads the configuration register at most 10 times, and fails with
\* ConfigurationNotDefaultAfterReset only after a read that is not the default.
C5_ResetReadsAtMostTen ==
    (op = "new_calibrated" /\ busLog # <<>>) =>
        /\ busLog[1].op = "write" /\ busLog[1].regs = <<RegConfiguration>>
        /\ busLog[1].val = 47519
        /\ ConfigurationReads(busLog) <= MAX_RESET_READ_RETRIES
        /\ result.kind = "ConfigurationNotDefaultAfterReset" =>
              Configuration_from_bits(buf[1]) # Configuration_default

\* the bus operations of a log without their outcome
RECURSIVE Traffic(_)
Traffic(log) ==
    IF log = <<>> THEN <<>>
    ELSE <<<<log[1].op, log[1].regs[1], log[1].val>>>> \o Traffic(Tail(log))

\* new_calibrated has returned from a device that reported the default
\* configuration on the first poll and zero in all other registers
C6_QuietDevice ==
    /\ paranoid
    /\ Returned("new_calibrated")
    /\ ConfigurationReads(busLog) = 1
    /\ Len(buf) = 6
    /\ Configuration_from_bits(buf[1]) = Configuration_default
    /\ \A i \in 2..6 : buf[i] = 0

\* C6: in paranoid mode, against a device that reports the default
\* configuration on the first poll and zero elsewhere, init() issues exactly:
\* write Configuration = 0xB99F, read Configuration, Calibration, Current,
\* Power, ShuntVoltage, BusVoltage, and then a write of the calibration
\* register iff the calibration's register bits are non-zero (408 for the
\* calibration of the tests); no other bus operation.
C6_ParanoidInitTraffic ==
    C6_QuietDevice =>
        LET bits == IF register_bits_panics(arg) THEN 0 ELSE register_bits(arg)
            checks == <<<<"write", 0, 47519>>, <<"write_read", 0, 0>>,
                        <<"write_read", 5, 0>>, <<"write_read", 4, 0>>,
                        <<"write_read", 3, 0>>, <<"write_read", 1, 0>>,
                        <<"write_read", 2, 0>>>>
        IN  /\ Traffic(busLog) = IF bits # 0 THEN Append(checks, <<"write", 5, bits>>)
                                 ELSE checks
            /\ arg = TestCalibration => bits = 408
            /\ arg.kind = "UnCalibrated" => bits = 0

\* C6 witness: the initialization of the tests, calibration write included
C6_Witness ==
    /\ C6_QuietDevice
    /\ arg = TestCalibration
    /\ result.tag = "Ok"
    /\ Len(busLog) = 8

\* C7 as stated: new_calibrated never loses the transport: at any moment the
\* caller, the driver or the returned error holds it, the driver after
\* success and the error after every failure.
C7_TransportNeverLost ==
    op = "new_calibrated" =>
        /\ owner \in {"caller", "driver", "error"}
        /\ pc = "idle" =>
              /\ result.tag \in {"Ok", "Err"}
              /\ result.tag = "Ok" => owner = "driver"
              /\ result.tag = "Err" => owner \in {"error", "caller"}

\* C8: in paranoid mode set_configuration(conf) issues exactly one write, of
\* the encoding of conf to the configuration register; on success the cache
\* holds conf, on a transport failure the cache is empty whatever it held.
C8_SetConfigurationCache ==
    (paranoid /\ Returned("set_configuration")) =>
        /\ Len(busLog) = 1
        /\ Traffic(busLog) = <<<<"write", 0, Configuration_as_bits(arg)>>>>
        /\ arg = TriggeredConfiguration => busLog[1].val = 411
        /\ result.tag \in {"Ok", "Err"}
        /\ result.tag = "Ok" => busLog[1].ok /\ config = <<arg>>
        /\ result.tag = "Err" => result.kind = "I2cError" /\ ~busLog[1].ok /\ config = <<>>

\* C8 witness: a failed write that emptied a cache holding another configuration
C8_Witness ==
    /\ paranoid /\ Returned("set_configuration")
    /\ result.tag = "Err"
    /\ config_before # <<>> /\ config_before # <<arg>>
    /\ config = <<>>

\* C9: in paranoid mode, configuration() that reads r while s is cached fails
\* with ConfigurationMismatch {read: r, saved: s} and caches r when r differs
\* from s, and returns Ok(r) with the cache unchanged when r equals s; with an
\* empty cache it never reports a mismatch, returns Ok(r) and caches r. A
\* configuration() call that follows a mismatch and reads the same word
\* returns Ok(r).
C9_MismatchReplacesCache ==
    /\ [](  (paranoid /\ Returned("configuration") /\ buf # <<>>) =>
              LET r == Configuration_from_bits(buf[1]) IN
              IF config_before = <<>>
              THEN result = Ok(r) /\ config = <<r>>
              ELSE IF r # config_before[1]
                   THEN /\ result = Err("ConfigurationMismatch",
                                        [read |-> r, saved |-> config_before[1]])
                        /\ config = <<r>>
                   ELSE result = Ok(r) /\ config = config_before)
    /\ [][  (/\ paranoid /\ Returned("configuration")
             /\ result.kind = "ConfigurationMismatch"
             /\ op' = "configuration" /\ buf' = buf)
            => (result' = Ok(Configuration_from_bits(buf[1])) /\ config' = config)  ]_vars

\* C9 witness: a mismatch between the cached triggered configuration and the
\* default read from the device
C9_Witness ==
    /\ paranoid /\ Returned("configuration")
    /\ result.kind = "ConfigurationMismatch"
    /\ config_before = <<TriggeredConfiguration>>
    /\ buf = <<14751>>
    /\ config = <<Configuration_default>>

\* C10: trigger() with a cached configuration c issues exactly one write, of
\* the encoding of c to the configuration register, and no read; without one
\* it issues one configuration read followed by one write of the re-encoding
\* of the configuration decoded from the word read; a failed read is returned
\* as the transport error without any write; the ConfigurationMismatch branch
\* is never reached.
C10_TriggerRewritesConfiguration ==
    /\ ~(result.tag = "Panic" /\ result.kind = "unreachable")
    /\ Returned("trigger") =>
          IF paranoid /\ config_before # <<>>
          THEN Traffic(busLog) = <<<<"write", 0, Configuration_as_bits(config_before[1])>>>>
          ELSE /\ busLog[1].op = "write_read" /\ busLog[1].regs = <<RegConfiguration>>
               /\ IF ~busLog[1].ok
                  THEN Len(busLog) = 1 /\ result.tag = "Err" /\ result.kind = "I2cError"
                  ELSE /\ Len(busLog) = 2
                       /\ busLog[2].op = "write" /\ busLog[2].regs = <<RegConfiguration>>
                       /\ busLog[2].val =
                            Configuration_as_bits(Configuration_from_bits(buf[1]))
                       /\ buf[1] \in {14751, 31135} => busLog[2].val = 14751

\* C10 witness: trigger() without a cache that read the default configuration
\* with the unused bit 14 set and wrote the default back
C10_Witness ==
    /\ Returned("trigger")
    /\ Len(busLog) = 2
    /\ buf = <<31135>>
    /\ result.tag = "Ok"

\* the device is in triggered mode
TriggeredMode(d) ==
    ~d.resetting /\ OperatingMode_from_register(d.conf)[1] = "Triggered"

ConversionReady(w) == (w \div 2) % 2 = 1

ActiveShuntRange ==
    IF paranoid /\ config # <<>> THEN config[1].shunt_voltage_range ELSE "Fsr320mv"

ActiveBusRange ==
    IF paranoid /\ config # <<>> THEN config[1].bus_voltage_range ELSE "Fsr32v"

\* C12: shunt_voltage() and bus_voltage() each issue one register read and
\* validate the word against the active range R (the cached configuration's
\* range in paranoid mode, else +-320 mV and 32 V): shunt_voltage() is Ok iff
\* -100*R_mV <= signed16(word) <= 100*R_mV, bus_voltage() is Ok iff
\* (word >> 3) * 4 <= 1000*R_V; otherwise the out-of-range error carries
\* should = R and is = the unchecked decoding of the word.
C12_SingleReadsCheckActiveRange ==
    /\ Returned("shunt_voltage") =>
          /\ Traffic(busLog) = <<<<"write_read", 1, 0>>>>
          /\ busLog[1].ok =>
                /\ result.tag = "Ok" <=> ShuntInRange(buf[1])
                /\ result.tag = "Ok" => result.val = Signed16(buf[1])
                /\ result.tag # "Ok" =>
                      result = Err("ShuntVoltageOutOfRange",
                                   [should |-> ActiveShuntRange, is |-> Signed16(buf[1])])
                /\ (buf[1] = 32001 /\ ActiveShuntRange = "Fsr320mv") => result.tag = "Err"
    /\ Returned("bus_voltage") =>
          /\ Traffic(busLog) = <<<<"write_read", 2, 0>>>>
          /\ busLog[1].ok =>
                /\ result.tag = "Ok" <=> BusInRange(buf[1])
                /\ result.tag = "Ok" => result.val = buf[1]
                /\ result.tag # "Ok" =>
                      result = Err("BusVoltageOutOfRange",
                                   [should |-> ActiveBusRange, is |-> buf[1]])
                /\ (buf[1] = 64008 /\ ActiveBusRange = "Fsr32v") => result.tag = "Err"

\* C12 witness: 80 mV read while a configuration with the +-40 mV range is
\* cached is rejected
C12_Witness ==
    /\ Returned("shunt_voltage")
    /\ paranoid /\ config = <<TriggeredConfiguration>>
    /\ buf = <<8000>>
    /\ result.tag = "Err" /\ result.kind = "ShuntVoltageOutOfRange"

\* C13: when a bus operation returns a transport error the call issues no
\* further bus operation and returns that error value in the transport-error
\* variant; a transport-error result always stems from the last bus operation;
\* the only bus operation a call repeats is the configuration read of the
\* reset poll.
C13_TransportErrorsSurface ==
    /\ \A i \in DOMAIN busLog : ~busLog[i].ok => i = Len(busLog)
    /\ (busLog # <<>> /\ ~busLog[Len(busLog)].ok) =>
          /\ pc = "idle"
          /\ result = Err("I2cError", busLog[Len(busLog)].err)
    /\ (result.tag = "Err" /\ result.kind = "I2cError") =>
          (busLog # <<>> /\ ~busLog[Len(busLog)].ok)
    /\ \A i, j \in DOMAIN busLog :
          (i < j /\ busLog[i].op = busLog[j].op /\ busLog[i].regs = busLog[j].regs) =>
              /\ op = "new_calibrated"
              /\ busLog[i].op = "write_read"
              /\ busLog[i].regs = <<RegConfiguration>>

\* C13 witness: the no_transaction next_measurement whose third read failed
C13_Witness ==
    /\ Returned("next_measurement") /\ no_transaction
    /\ Len(busLog) = 3 /\ ~busLog[3].ok
    /\ result = Err("I2cError", "Overrun")

\* C14 as stated: calibrate(value) issues exactly one bus write, of
\* value.register_bits() to register 5, and afterwards the driver's stored
\* calibration is value, also when the write failed; the cached configuration
\* is unchanged.
C14_CalibrateWritesOnce ==
    Returned("calibrate") =>
        /\ Len(busLog) = 1
        /\ result.tag \in {"Ok", "Err"}
        /\ Traffic(busLog) = <<<<"write", 5, register_bits(arg)>>>>
        /\ calib = arg
        /\ config = config_before
        /\ result.tag = "Ok" <=> busLog[1].ok

\* C15: for every Configuration value x, from_bits(as_bits(x)) = x; and for
\* every 16-bit word w, from_bits(as_bits(from_bits(w))) = from_bits(w).
C15_DecodeInvertsEncode ==
    /\ (arg.kind = "value" /\ Len(buf) = 2) => buf[2] = arg.v
    /\ (arg.kind = "word" /\ Len(buf) = 3) => buf[3] = buf[1]

\* C15 witness: a value with averaging resolutions and AdcOff went through
\* as_bits and from_bits
C15_Witness ==
    /\ arg.kind = "value" /\ Len(buf) = 2
    /\ arg.v.bus_resolution = "Avg128" /\ arg.v.shunt_resolution = "Res9Bit"
    /\ arg.v.operating_mode = <<"Continous", "BusVoltage">>
    /\ arg.v.reset = "Reset"

\* C16: for every 16-bit word w in which neither resolution field decodes to
\* 12 bit, as_bits(from_bits(w)) agrees with w on every bit outside the mask
\* 0b0100_0010_0010_0000 (bits 14, 9 and 5).
C16_EncodeAgreesOutsideMask ==
    (/\ arg.kind = "word" /\ Len(buf) >= 2
     /\ buf[1].bus_resolution # "Res12Bit"
     /\ buf[1].shunt_resolution # "Res12Bit") =>
        \A i \in (0..15) \ {14, 9, 5} : (buf[2] \div 2 ^ i) % 2 = (arg.v \div 2 ^ i) % 2

\* C16 witness: a word with the reserved bit and both ADC3 bits set that the
\* round trip changes
C16_Witness ==
    /\ arg.kind = "word" /\ Len(buf) >= 2
    /\ arg.v = 2 ^ 14 + 2 ^ 9 + 2 ^ 5 + 5
    /\ buf[2] = 5

\* C17: the default configuration encodes to 0x399F and 0x399F decodes to the
\* default configuration; the reset-bearing default encodes to 0xB99F.
C17_DefaultMatchesDatasheet ==
    /\ Configuration_default =
          [reset |-> "Run", bus_voltage_range |-> "Fsr32v",
           shunt_voltage_range |-> "Fsr320mv", bus_resolution |-> "Res12Bit",
           shunt_resolution |-> "Res12Bit",
           operating_mode |-> <<"Continous", "ShutAndBusVoltage">>]
    /\ (arg.kind = "value" /\ arg.v = Configuration_default /\ Len(buf) >= 1) =>
          buf[1] = 14751
    /\ (arg.kind = "word" /\ arg.v = 14751 /\ Len(buf) >= 1) =>
          buf[1] = Configuration_default
    /\ (arg.kind = "value" /\ arg.v = ResetConfiguration /\ Len(buf) >= 1) =>
          buf[1] = 47519

\* C17 witness: the default configuration encoded and decoded again
C17_Witness ==
    /\ arg.kind = "value" /\ arg.v = Configuration_default
    /\ Len(buf) = 2 /\ buf[1] = 14751 /\ buf[2] = Configuration_default

\* C18: decoding is total: every 16-bit word decodes to a Configuration value
\* without reaching a panic arm; the resolution patterns 0b0011, 0b0111 and
\* 0b1000 decode to 12 bit and 0b0100, 0b0101, 0b0110 to 9, 10 and 11 bit.
C18_DecodeTotal ==
    (arg.kind = "word" /\ Len(buf) >= 1) =>
        /\ buf[1] \in AllConfigurations
        /\ \A f \in {<<7, "bus_resolution">>, <<3, "shunt_resolution">>} :
             LET b == (arg.v \div 2 ^ f[1]) % 16
                 r == IF f[1] = 7 THEN buf[1].bus_resolution ELSE buf[1].shunt_resolution
             IN  /\ b \in {3, 7, 8} => r = "Res12Bit"
                 /\ b = 4 => r = "Res9Bit"
                 /\ b = 5 => r = "Res10Bit"
                 /\ b = 6 => r = "Res11Bit"
                 /\ r \in Resolutions

\* C18 witness: a word with mode bits 0b100 and resolution patterns 0b1000
\* and 0b0110 decoded
C18_Witness ==
    /\ arg.kind = "word" /\ Len(buf) >= 1
    /\ arg.v % 8 = 4
    /\ (arg.v \div 2 ^ 7) % 16 = 8 /\ (arg.v \div 2 ^ 3) % 16 = 6
    /\ buf[1].operating_mode = <<"AdcOff">>
    /\ buf[1].bus_resolution = "Res12Bit" /\ buf[1].shunt_resolution = "Res11Bit"

\* the exact product current_lsb * r_shunt_uohm of the input pair, 16 bytes
ExactProduct == wide_mul(arg.current_lsb, arg.r_shunt_uohm)

\* the input pair is valid: current_lsb >= 0 and the exact product is in RANGE
ValidPair ==
    /\ arg.current_lsb[8] < 128
    /\ leq(widen(RANGE.start, 16), ExactProduct)
    /\ leq(ExactProduct, widen(RANGE.end, 16))

\* q = floor(SCALING_FACTOR / ExactProduct): q * P <= SCALING_FACTOR < (q + 1) * P
IsFloorQuotient(q) ==
    /\ leq(mul_add(ExactProduct, q, 0), widen(SCALING_FACTOR, 16))
    /\ ~leq(mul_add(ExactProduct, q + 1, 0), widen(SCALING_FACTOR, 16))

\* C19: for every valid pair that IntCalibration::new accepts, as_bits returns
\* floor(40_960_000_000 / (current_lsb * r_shunt)) with bit 0 cleared, and
\* every value as_bits returns has bit 0 equal to 0.
C19_AsBitsIsFloorWithBit0Cleared ==
    /\ pc = "calibration" /\ op = "new" /\ ValidPair
           => result.tag = "Ok" /\ IsSome(result.val)
    /\ pc = "calibration" /\ op = "as_bits" /\ ValidPair
           => /\ result.tag = "Ok"
              /\ \E q \in {result.val, result.val + 1} :
                     IsFloorQuotient(q) /\ result.val = q - (q % 2)
    /\ pc = "calibration" /\ op = "as_bits" /\ result.tag = "Ok"
           => result.val % 2 = 0 /\ result.val \in 2..(2 ^ 16 - 2)

\* C19 witness: as_bits of new(625009 uA, 1 uOhm), whose quotient 65535 is
\* odd, is 65534
C19_Witness ==
    /\ pc = "calibration" /\ op = "as_bits" /\ ValidPair
    /\ arg.current_lsb = U64(625009) /\ arg.r_shunt_uohm = U64(1)
    /\ result = Ok(65534)

\* C20: IntCalibration::new returns a calibration exactly when current_lsb >= 0
\* and the exact product current_lsb * r_shunt lies in [625009, 20_480_000_000];
\* the 64-bit product neither overflows nor wraps into the accepted range.
C20_NewAcceptsExactlyValidPairs ==
    pc = "calibration" /\ op = "new"
        => result.tag = "Ok" /\ (IsSome(result.val) <=> ValidPair)

\* |current_lsb * k * signed16(reg)| of the input pair and the register word
\* given, exactly, in 11 bytes
ExactMagnitude(k) ==
    LET signed == Signed16(buf[1])
    IN  mul_add(widen(arg.current_lsb, 11), k * (IF signed < 0 THEN -signed ELSE signed), 0)

\* the i64 that holds current_lsb * k * signed16(reg), if one does
IsExactI64(v, k) ==
    LET mag == ExactMagnitude(k)
    IN  /\ mag[9] = 0 /\ mag[10] = 0 /\ mag[11] = 0 /\ mag[8] < 128
        /\ v = IF Signed16(buf[1]) < 0 THEN i64_neg(SubSeq(mag, 1, 8)) ELSE SubSeq(mag, 1, 8)

\* C21: for every valid IntCalibration and every register word,
\* current_from_register returns current_lsb * signed16(register) and
\* power_from_register returns 20 * current_lsb * signed16(register), without
\* overflow of the i64 (lsb 100: 796 gives 79_600 uA, 636 gives 1_272_000 uW,
\* 0xFFFF gives -100 uA).
C21_CurrentAndPowerFromRegister ==
    /\ pc = "calibration" /\ op = "current_from_register" /\ ValidPair
           => /\ result.tag = "Ok" /\ IsExactI64(result.val, 1)
              /\ arg.current_lsb = U64(100) /\ buf = <<796>> => result.val = U64(79600)
              /\ arg.current_lsb = U64(100) /\ buf = <<2 ^ 16 - 1>>
                     => result.val = <<156, 255, 255, 255, 255, 255, 255, 255>>
    /\ pc = "calibration" /\ op = "power_from_register" /\ ValidPair
           => /\ result.tag = "Ok" /\ IsExactI64(result.val, 20)
              /\ arg.current_lsb = U64(100) /\ buf = <<636>> => result.val = U64(1272000)

\* C21 witness: power_from_register(0x8000) of the largest valid current_lsb,
\* 20_480_000_000 uA, is -20 * 20_480_000_000 * 32768
C21_Witness ==
    /\ pc = "calibration" /\ op = "power_from_register" /\ ValidPair
    /\ arg.current_lsb = RANGE.end /\ arg.r_shunt_uohm = U64(1)
    /\ buf = <<2 ^ 15>>
    /\ result.tag = "Ok" /\ result.val[8] >= 128

\* shunt_raw * cal_reg of the simulate call, exactly, in 16 bytes
ExactShuntCalib == wide_mul(U64(ShuntVoltage_raw(buf[2])), U64(IntCalibration_as_bits(calib)))

\* current = (shunt_raw * cal_reg) / 4096; it is below 2^20
ExactCurrent == as_small(div_small(ExactShuntCalib, 4096, 0))

\* current * bus_4mv_field, exactly, in 16 bytes
ExactCurrentBus == wide_mul(U64(ExactCurrent), U64(buf[1] \div 8))

\* power = (current * bus_4mv_field) / 5000; it is below 2^31
ExactPower == as_small(div_small(ExactCurrentBus, 5000, 0))

\* C22: simulate computes current = (shunt_raw * cal_reg) / 4096 and
\* power = (current * bus_4mv_field) / 5000, returns MathOverflow carrying the
\* bus and shunt values exactly when current > 0xFFFF or power > 0xFFFF, and
\* otherwise returns the calibration's projection of current and power with
\* the same bus and shunt values.
C22_SimulateOverflowIffExceeds ==
    pc = "calibration" /\ op = "simulate" =>
        IF ExactCurrent > 2 ^ 16 - 1 \/ ExactPower > 2 ^ 16 - 1
        THEN /\ result.tag = "Err" /\ result.kind = "MathOverflow"
             /\ result.val.bus_voltage = buf[1] /\ result.val.shunt_voltage = buf[2]
        ELSE /\ result.tag = "Ok"
             /\ result.val.bus_voltage = buf[1] /\ result.val.shunt_voltage = buf[2]
             /\ result.val.current
                    = IntCalibration_current_from_register(calib, ExactCurrent, FALSE).val
             /\ result.val.power
                    = IntCalibration_power_from_register(calib, ExactPower, FALSE).val

\* C30: in simulate neither shunt_raw * cal_reg nor current * bus_4mv_field
\* exceeds 2^32 - 1, so the u32 arithmetic never overflows.
C30_SimulateProductsFitU32 ==
    pc = "calibration" /\ op = "simulate" =>
        /\ \A j \in 5..16 : ExactShuntCalib[j] = 0 /\ ExactCurrentBus[j] = 0
        /\ result.tag # "Panic"

\* C29: for every IntCalibration obtainable through the public API (new,
\* from_bits, the derived Default), as_bits returns an even value in
\* [2, 65534], without a division by zero and without reaching unreachable!().
C29_AsBitsNeverPanics ==
    pc = "calibration" /\ op = "as_bits" =>
        /\ result.tag = "Ok"
        /\ result.val % 2 = 0
        /\ result.val \in 2..(2 ^ 16 - 2)

\* C28: for every 16-bit mv, BusVoltage::from_mv(mv) has the conversion-ready
\* and the math-overflow flag cleared and voltage_mv() returns mv rounded down
\* to a multiple of 4.
C28_FromMvRoundsDown ==
    op = "from_mv" =>
        /\ ~BusVoltage_is_conversion_ready(result.val.bus_voltage)
        /\ ~BusVoltage_has_math_overflowed(result.val.bus_voltage)
        /\ result.val.voltage_mv = arg.v - (arg.v % 4)

\* the number table 1 of the datasheet gives a pin: GND 0, VS+ 1, SDA 2, SCL 3
PinNumber(p) == IF p = "Gnd" THEN 0 ELSE IF p = "Vcc" THEN 1 ELSE IF p = "Sda" THEN 2 ELSE 3

\* C23: from_byte(b) succeeds exactly for 0x40 <= b <= 0x4F and then as_byte
\* is b; from_pins(a0, a1) is the byte 0b100_0000 | a0 | (a1 << 2), the 16
\* pairs cover exactly 0x40..=0x4F, and as_pins gives the pair back; every
\* Address has bit 7 clear and bits 6..4 equal to 0b100.
C23_AddressRoundTrips ==
    /\ pc = "address" /\ op = "from_byte"
           => /\ result.tag = "Ok" <=> (arg.v >= 64 /\ arg.v <= 79)
              /\ result.tag = "Ok" => buf[1] = arg.v /\ result.val.byte \div 16 = 4
              /\ result.tag = "Ok" =>
                     buf[1] = 64 + PinNumber(buf[2][1]) + 4 * PinNumber(buf[2][2])
    /\ pc = "address" /\ op = "from_pins"
           => /\ buf[1] = 64 + PinNumber(arg.v[1]) + 4 * PinNumber(arg.v[2])
              /\ buf[2] = arg.v
              /\ result.val.byte \div 16 = 4
              /\ {Address_from_pins(a0, a1).byte :
                      a0 \in {"Gnd", "Vcc", "Sda", "Scl"}, a1 \in {"Gnd", "Vcc", "Sda", "Scl"}}
                     = 64..79

\* C23 witness: from_pins(Sda, Scl) is 0b100_1110 and as_pins gives (Sda, Scl)
C23_Witness ==
    /\ pc = "address" /\ op = "from_pins"
    /\ arg.v = <<"Sda", "Scl">>
    /\ buf = <<78, <<"Sda", "Scl">>>>

\* new_calibrated returned a failure of reset(): its last bus operation was
\* on the configuration register
ResetFailed ==
    /\ op = "new_calibrated" /\ pc = "idle" /\ result.tag = "Err"
    /\ busLog[Len(busLog)].regs = <<RegConfiguration>>

\* reset() returned Ok and init() continues or has returned
ResetSucceeded ==
    /\ op = "new_calibrated"
    /\ \/ pc \in {"init_zero", "init_shunt", "init_bus", "init_calibrate"}
       \/ pc = "idle" /\ busLog # <<>> /\ busLog[Len(busLog)].regs # <<RegConfiguration>>
       \/ pc = "idle" /\ result.tag \in {"Ok", "Panic"}

\* C24 as stated: in paranoid mode the cache is empty during every poll of
\* reset() and when reset() fails, holds exactly the default configuration
\* when reset() returns Ok, and never holds a configuration with reset = Reset
\* once reset() has returned.
C24_ResetClearsCache ==
    paranoid =>
        /\ pc = "reset_poll" => config = None
        /\ ResetFailed => config = None
        /\ ResetSucceeded => config = Some(Configuration_default)
        /\ ResetFailed \/ ResetSucceeded => (IsSome(config) => config[1].reset # "Reset")

\* C25 as stated: reset() returns Ok only when a polled configuration word
\* equals the default word 0x399F in all 16 bits.
C25_ResetPollStrict ==
    ResetSucceeded => buf[1] = 14751

\* C26 as stated: in paranoid mode, between the calls of the driver and once
\* the device has finished a reset it was told to make, a non-empty cached
\* configuration is the decoding of the device's configuration register.
C26_CacheCoherent ==
    paranoid /\ env = "device" /\ Idle /\ ~dev.resetting /\ IsSome(config)
        => config[1] = Configuration_from_bits(dev.conf)

\* the measurement reads
MeasurementReads ==
    {"shunt_voltage", "bus_voltage", "power_raw", "current_raw", "next_measurement"}

\* C27: whatever their outcome, shunt_voltage, bus_voltage, power_raw,
\* current_raw and next_measurement issue no register write and leave the
\* cached configuration and the calibration as they were.
C27_ReadsAreReadOnly ==
    /\ [](op \in MeasurementReads => WritesOf(busLog) = <<>> /\ config = config_before)
    /\ [][op' \in MeasurementReads =>
              /\ config' = config /\ calib' = calib /\ owner' = owner
              /\ WritesOf(busLog') = <<>>]_vars

\* C27 witness: in paranoid mode, with a configuration cached and an
\* IntCalibration, next_measurement has returned MathOverflow after four reads
C27_Witness ==
    /\ Returned("next_measurement") /\ paranoid /\ IsSome(config)
    /\ calib = TestCalibration
    /\ result.tag = "Err" /\ result.kind = "MathOverflow"
    /\ Len(ReadsOf(busLog)) = 4 /\ WritesOf(busLog) = <<>>

====
